---- MODULE Spec2Model ----
(***************************************************************************)
(* Model of tmlib.models.layer.ChannelLayer: the geometry of a Zoomify     *)
(* pyramid (plate grid, site offsets, pyramid levels, tile groups, the     *)
(* mapping between images and tiles) and the extraction of padded tiles.   *)
(***************************************************************************)
EXTENDS Integers, Sequences, FiniteSets, TLC

VARIABLES
    experiment,   \* self.channel.experiment: plates and the geometry constants
    image_files,  \* self.image_files: the files of the layer, one per site
    descriptor,   \* the file ImageProperties.xml in self.location
    cache,        \* the values the layer's cached_property attributes hold
    call,         \* the last call made on the layer: operation, arguments, outcome
    tile_files,   \* the tile files of the pyramid in self.location
    tile_groups   \* the tile group directories in self.location

vars == <<experiment, image_files, descriptor, cache, call, tile_files, tile_groups>>

(***************************************************************************)
(* Numbers.                                                                *)
(***************************************************************************)

\* np.floor(np.float(a) / np.float(b)) for b > 0
Floor(a, b) == a \div b

\* np.ceil(np.float(a) / np.float(b)) for b > 0
Ceil(a, b) == -((-a) \div b)

\* np.ceil(np.sqrt(n)) for n >= 1
CeilSqrt(n) == CHOOSE k \in 1..n : k * k >= n /\ (k - 1) * (k - 1) < n

\* range(a, b) as a list
Range(a, b) == [i \in 1..(IF b > a THEN b - a ELSE 0) |-> a + i - 1]

\* the elements of a list
Elems(s) == {s[i] : i \in DOMAIN s}

\* list.index(v), zero-based, of a value the list holds
Index(s, v) == (CHOOSE i \in DOMAIN s : s[i] = v /\ \A j \in 1..(i - 1) : s[j] # v) - 1

\* itertools.product(a, b) of two lists, as a list: the first varies slowest
Product(a, b) ==
    [k \in 1..(Len(a) * Len(b)) |->
        <<a[((k - 1) \div Len(b)) + 1], b[((k - 1) % Len(b)) + 1]>>]

\* concatenation of a list of lists
RECURSIVE Flatten(_)
Flatten(ss) == IF ss = <<>> THEN <<>> ELSE Head(ss) \o Flatten(Tail(ss))

\* sum of a list of integers
RECURSIVE Sum(_)
Sum(s) == IF s = <<>> THEN 0 ELSE Head(s) + Sum(Tail(s))

\* the decimal digits of Python's str() and int()
DigitChars == <<"0", "1", "2", "3", "4", "5", "6", "7", "8", "9">>

IsDigit(ch) == \E d \in DOMAIN DigitChars : DigitChars[d] = ch

\* '{n}'.format(n=n): the decimal digits of an integer
RECURSIVE Str(_)
Str(n) ==
    IF n < 0 THEN <<"-">> \o Str(-n)
    ELSE IF n < 10 THEN <<DigitChars[n + 1]>>
    ELSE Str(n \div 10) \o <<DigitChars[(n % 10) + 1]>>

\* int(v) for a string of digits
RECURSIVE int(_)
int(v) ==
    IF v = <<>> THEN 0
    ELSE 10 * int(SubSeq(v, 1, Len(v) - 1))
         + (CHOOSE d \in DOMAIN DigitChars : DigitChars[d] = v[Len(v)]) - 1

(***************************************************************************)
(* Outcomes of a call: a returned value or a raised exception.             *)
(***************************************************************************)

Return(c, v) == [raises |-> "none", value |-> v, cache |-> c]
Raise(c, e) == [raises |-> e, value |-> <<>>, cache |-> c]
Ok(r) == r.raises = "none"

\* cached_property: the stored value when there is one, else the body's
\* value, which is stored when the body returns
Cached(c, name, r) ==
    IF name \in DOMAIN c THEN Return(c, c[name])
    ELSE IF Ok(r) THEN Return(r.cache @@ (name :> r.value), r.value)
    ELSE r

(***************************************************************************)
(* ChannelLayer.                                                           *)
(***************************************************************************)

tile_size == 256

\* the descriptor when the pyramid has not been created yet
NoDescriptor == [exists |-> FALSE, HEIGHT |-> <<>>, WIDTH |-> <<>>, NUMTILES |-> <<>>]

\* the attributes of ImageProperties.xml as create_image_properties_file
\* writes them: str() of the numbers
ImageProperties(height, width, numtiles) ==
    [exists |-> TRUE, HEIGHT |-> Str(height), WIDTH |-> Str(width),
     NUMTILES |-> Str(numtiles)]

\* reversed(levels)
Reverse(s) == [i \in 1..Len(s) |-> s[Len(s) + 1 - i]]

\* [p for p in experiment.plates if p.id == id]
PlatesWithId(exp, id) == SelectSeq(exp.plates, LAMBDA p : p.id = id)

\* the body of plate_grid: the IDs of the plates on a near-square grid,
\* filled row by row; a zero-based (row, column) array
\* plate_grid with the square root rounded down
plate_grid_dimensions_floor_sqrt(n) ==
    LET k == CeilSqrt(n)
        f == IF k * k = n THEN k ELSE k - 1
    IN  IF n % f = 0 /\ (n \div f) % 2 = 0 THEN <<f, n \div f>> ELSE <<f, f>>

\* the dimensions (height, width) plate_grid chooses for n plates:
\* n / ceil(sqrt(n)) is a float and "% 2 == 0" holds of even whole quotients
plate_grid_dimensions(n) ==
    LET k == CeilSqrt(n)
    IN  IF n % k = 0 /\ (n \div k) % 2 = 0 THEN <<k, n \div k>> ELSE <<k, k>>

plate_grid_body(c, exp) ==
    LET n == Len(exp.plates)
        dimensions == plate_grid_dimensions(n)
        cooridinates == Product(Range(0, dimensions[1]), Range(0, dimensions[2]))
    IN  IF Len(cooridinates) > n
        THEN Raise(c, "IndexError")
        ELSE Return(c, [shape |-> dimensions,
                        at |-> [rc \in Elems(cooridinates) |->
                                   exp.plates[Index(cooridinates, rc) + 1].id]])

plate_grid(c, exp) == Cached(c, "plate_grid", plate_grid_body(c, exp))

plate_spacer_size(c, exp) ==
    Cached(c, "plate_spacer_size", Return(c, exp.well_spacer_size * 2))

\* the while loop of image_size ending as soon as one axis fits into a tile
RECURSIVE LevelsUntilOneAxisFits(_, _, _)
LevelsUntilOneAxisFits(height, width, zoom) ==
    IF height > tile_size /\ width > tile_size
    THEN <<<<height, width>>>> \o
         LevelsUntilOneAxisFits(Ceil(height, zoom), Ceil(width, zoom), zoom)
    ELSE <<<<height, width>>>>

\* the while loop of image_size: the levels from the base upwards
RECURSIVE Levels(_, _, _)
Levels(height, width, zoom) ==
    IF height > tile_size \/ width > tile_size
    THEN <<<<height, width>>>> \o Levels(Ceil(height, zoom), Ceil(width, zoom), zoom)
    ELSE <<<<height, width>>>>

\* image_size without a descriptor, after self.plate_grid (g) was read: the
\* sizes of the plates of all grid cells are summed and the spacers added
image_size_of_grid(g, exp) ==
    IF ~Ok(g) THEN g
    ELSE
    LET grid == g.value
        cells == Product(Range(0, grid.shape[1]), Range(0, grid.shape[2]))
        sizes == [i \in DOMAIN cells |->
                     PlatesWithId(exp, grid.at[cells[i]])[1].image_size]
        s == plate_spacer_size(g.cache, exp)
        row_spacer_height == (grid.shape[1] - 1) * s.value
        column_spacer_width == (grid.shape[2] - 1) * s.value
    IN  IF \E i \in DOMAIN cells : PlatesWithId(exp, grid.at[cells[i]]) = <<>>
        THEN Raise(g.cache, "IndexError")
        ELSE IF Cardinality(Elems(sizes)) > 1
        THEN Raise(g.cache, "ValueError")
        ELSE Return(s.cache,
                    <<Sum([i \in DOMAIN sizes |-> sizes[i][1]]) + row_spacer_height,
                      Sum([i \in DOMAIN sizes |-> sizes[i][2]]) + column_spacer_width>>)

\* the base size of image_size when ImageProperties.xml does not exist
image_size_calculated(c, exp) == image_size_of_grid(plate_grid(c, exp), exp)

\* image_size after the base size was determined: the levels, top-down
image_size_levels(base, exp) ==
    IF ~Ok(base) THEN base
    ELSE Return(base.cache,
                Reverse(Levels(base.value[1], base.value[2], exp.zoom_factor)))

image_size_body(c, exp, desc) ==
    image_size_levels(IF ~desc.exists
                      THEN image_size_calculated(c, exp)
                      ELSE Return(c, <<int(desc.HEIGHT), int(desc.WIDTH)>>),
                      exp)

image_size(c, exp, desc) == Cached(c, "image_size", image_size_body(c, exp, desc))

\* dimensions after self.image_size (s) was read
dimensions_of_sizes(s) ==
    IF ~Ok(s) THEN s
    ELSE Return(s.cache,
                [i \in DOMAIN s.value |->
                    <<Ceil(s.value[i][1], tile_size), Ceil(s.value[i][2], tile_size)>>])

dimensions_body(c, exp, desc) == dimensions_of_sizes(image_size(c, exp, desc))

dimensions(c, exp, desc) == Cached(c, "dimensions", dimensions_body(c, exp, desc))

\* n_tiles after self.dimensions (d) was read
n_tiles_of_dimensions(d) ==
    IF ~Ok(d) THEN d
    ELSE Return(d.cache, Sum([i \in DOMAIN d.value |-> d.value[i][1] * d.value[i][2]]))

n_tiles(c, exp, desc) == n_tiles_of_dimensions(dimensions(c, exp, desc))

\* n_levels after self.dimensions (d) was read
n_levels_of_dimensions(d) == IF ~Ok(d) THEN d ELSE Return(d.cache, Len(d.value))

n_levels(c, exp, desc) == n_levels_of_dimensions(dimensions(c, exp, desc))

\* base_level_index after self.dimensions (d) was read
base_level_index_of_dimensions(d) ==
    IF ~Ok(d) THEN d ELSE Return(d.cache, Len(d.value) - 1)

base_level_index(c, exp, desc) ==
    base_level_index_of_dimensions(dimensions(c, exp, desc))

\* n_tile_groups with the quotient rounded down
n_tile_groups_of_n_tiles_floor(n) ==
    IF ~Ok(n) THEN n ELSE Return(n.cache, Floor(n.value, 256))

\* n_tile_groups after self.n_tiles (n) was read
n_tile_groups_of_n_tiles(n) ==
    IF ~Ok(n) THEN n ELSE Return(n.cache, Ceil(n.value, 256))

n_tile_groups(c, exp, desc) == n_tile_groups_of_n_tiles(n_tiles(c, exp, desc))

\* the directory 'TileGroup%d' % i in self.location
TileGroupDir(i) == <<"TileGroup", i>>

\* create_tile_groups after self.n_tile_groups (n) was read: the
\* directories in self.location after the loop, which makes those that do
\* not exist; the method returns None
create_tile_groups_of_n_tile_groups(n, dirs) ==
    IF ~Ok(n) THEN n
    ELSE Return(n.cache,
                dirs \cup {TileGroupDir(i) : i \in {j \in 0..(n.value - 1) :
                                                      TileGroupDir(j) \notin dirs}})

create_tile_groups(c, exp, desc, dirs) ==
    create_tile_groups_of_n_tile_groups(n_tile_groups(c, exp, desc), dirs)

\* create_image_properties_file with the height written as WIDTH and the
\* width as HEIGHT
properties_of_n_tiles_swapped(n) ==
    IF ~Ok(n) THEN n
    ELSE LET base == n.cache["image_size"][Len(n.cache["image_size"])]
         IN  Return(n.cache,
                    [exists |-> TRUE,
                     WIDTH |-> Str(base[1]),
                     HEIGHT |-> Str(base[2]),
                     NUMTILES |-> Str(n.value)])

\* create_image_properties_file after self.image_size and self.n_tiles (n)
\* were read: the element that is written to ImageProperties.xml
properties_of_n_tiles(n) ==
    IF ~Ok(n) THEN n
    ELSE LET base == n.cache["image_size"][Len(n.cache["image_size"])]
         IN  Return(n.cache,
                    [exists |-> TRUE,
                     WIDTH |-> Str(base[2]),
                     HEIGHT |-> Str(base[1]),
                     NUMTILES |-> Str(n.value)])

create_image_properties_file(c, exp, desc) == properties_of_n_tiles(n_tiles(c, exp, desc))

\* zoom_factor (cached_property)
zoom_factor(c, exp) == Cached(c, "zoom_factor", Return(c, exp.zoom_factor))

\* _calc_tile_indices_and_offsets with the end index rounded down and one
\* added, instead of rounded up
_calc_tile_indices_and_offsets_floor_end(position, length, displacement) ==
    LET start_index == Floor(position, tile_size)
        start_offset == tile_size * start_index - position
        end_index == Floor(position + length - displacement, tile_size) + 1
        indices == Range(start_index, end_index)
    IN  [indices |-> indices,
         offsets |-> [i \in DOMAIN indices |-> start_offset + (i - 1) * tile_size]]

\* _calc_tile_indices_and_offsets with the offset taken from the image to
\* the tile, instead of from the tile to the image
_calc_tile_indices_and_offsets_from_image(position, length, displacement) ==
    LET start_index == Floor(position, tile_size)
        start_offset == position - tile_size * start_index
        end_index == Ceil(position + length - displacement, tile_size)
        indices == Range(start_index, end_index)
    IN  [indices |-> indices,
         offsets |-> [i \in DOMAIN indices |-> start_offset + (i - 1) * tile_size]]

\* 256 * (index - position / 256) is computed in floating point without
\* rounding (a division by a power of two), so int() of it is this integer
_calc_tile_indices_and_offsets(position, length, displacement) ==
    LET start_index == Floor(position, tile_size)
        start_offset == tile_size * start_index - position
        end_index == Ceil(position + length - displacement, tile_size)
        end_offset == tile_size * end_index - (position + length - displacement)
        indices == Range(start_index, end_index)
    IN  [indices |-> indices,
         offsets |-> [i \in DOMAIN indices |->
                         IF i - 1 < Len(indices)
                         THEN start_offset + (i - 1) * tile_size
                         ELSE end_offset]]

\* _calc_tile_indices without the displacement
_calc_tile_indices_whole_length(position, length, displacement) ==
    LET start_index == Floor(position, tile_size)
        end_index == Ceil(position + length, tile_size)
    IN  Range(start_index, end_index)

_calc_tile_indices(position, length, displacement) ==
    LET start_index == Floor(position, tile_size)
        end_index == Ceil(position + length - displacement, tile_size)
    IN  Range(start_index, end_index)

\* np.where(self.plate_grid == id): the cells that hold id, row by row
Where(grid, id) ==
    SelectSeq(Product(Range(0, grid.shape[1]), Range(0, grid.shape[2])),
              LAMBDA rc : grid.at[rc] = id)

\* calc_site_offset with the sites above counted by their width
site_offset_in_grid_rows_by_width(g, exp, site) ==
    LET well == site.well
        plate == well.plate
    IN  IF ~Ok(g) THEN g
        ELSE IF Where(g.value, plate.id) = <<>> THEN Raise(g.cache, "IndexError")
        ELSE
        LET plate_coordinate == Where(g.value, plate.id)[1]
            y_offset ==
                site.coordinate[1] * site.image_size[2] +
                site.coordinate[1] * exp.vertical_site_displacement +
                Index(plate.nonempty_rows, well.coordinate[1]) * well.image_size[1] +
                Index(plate.nonempty_rows, well.coordinate[1]) * exp.well_spacer_size +
                plate_coordinate[1] * plate.image_size[1]
            x_offset ==
                site.coordinate[2] * site.image_size[2] +
                site.coordinate[2] * exp.horizontal_site_displacement +
                Index(plate.nonempty_columns, well.coordinate[2]) * well.image_size[2] +
                Index(plate.nonempty_columns, well.coordinate[2]) * exp.well_spacer_size +
                plate_coordinate[2] * plate.image_size[1]
        IN  Return(g.cache, <<y_offset, x_offset>>)

\* calc_site_offset after self.plate_grid (g) was read
site_offset_in_grid(g, exp, site) ==
    LET well == site.well
        plate == well.plate
    IN  IF ~Ok(g) THEN g
        ELSE IF Where(g.value, plate.id) = <<>> THEN Raise(g.cache, "IndexError")
        ELSE
        LET plate_coordinate == Where(g.value, plate.id)[1]
            y_offset ==
                site.coordinate[1] * site.image_size[1] +
                site.coordinate[1] * exp.vertical_site_displacement +
                Index(plate.nonempty_rows, well.coordinate[1]) * well.image_size[1] +
                Index(plate.nonempty_rows, well.coordinate[1]) * exp.well_spacer_size +
                plate_coordinate[1] * plate.image_size[1]
            x_offset ==
                site.coordinate[2] * site.image_size[2] +
                site.coordinate[2] * exp.horizontal_site_displacement +
                Index(plate.nonempty_columns, well.coordinate[2]) * well.image_size[2] +
                Index(plate.nonempty_columns, well.coordinate[2]) * exp.well_spacer_size +
                plate_coordinate[2] * plate.image_size[1]
        IN  Return(g.cache, <<y_offset, x_offset>>)

calc_site_offset(c, exp, site) == site_offset_in_grid(plate_grid(c, exp), exp, site)

\* map_image_to_base_tiles after the offset of the site (o) was calculated
mappings_at_offset(o, exp, image_file) ==
    IF ~Ok(o) THEN o
    ELSE
    LET row_info == _calc_tile_indices_and_offsets(
                        o.value[1], image_file.site.image_size[1],
                        exp.vertical_site_displacement)
        col_info == _calc_tile_indices_and_offsets(
                        o.value[2], image_file.site.image_size[2],
                        exp.horizontal_site_displacement)
        ij == Product([i \in DOMAIN row_info.indices |-> i],
                      [j \in DOMAIN col_info.indices |-> j])
    IN  Return(o.cache,
               [k \in DOMAIN ij |->
                   [row |-> row_info.indices[ij[k][1]],
                    column |-> col_info.indices[ij[k][2]],
                    y_offset |-> row_info.offsets[ij[k][1]],
                    x_offset |-> col_info.offsets[ij[k][2]]]])

map_image_to_base_tiles(c, exp, image_file) ==
    mappings_at_offset(calc_site_offset(c, exp, image_file.site), exp, image_file)

\* the files among files[i..] whose tiles hold rc, in the order of the list
RECURSIVE FilesAt(_, _, _, _)
FilesAt(rc, tiles, files, i) ==
    IF i > Len(files) THEN <<>>
    ELSE (IF rc \in tiles[i] THEN <<files[i].id>> ELSE <<>>) \o FilesAt(rc, tiles, files, i + 1)

\* maxzoom_tile_coordinate_to_image_file_map after the offsets of the sites
\* of all files were calculated: the first exception ends the loop; a file is
\* named by its id; a coordinate no file was appended to has no key
mapping_at_offsets(c, offsets, exp, files) ==
    IF \E i \in DOMAIN files : ~Ok(offsets[i])
    THEN offsets[CHOOSE i \in DOMAIN files :
                    ~Ok(offsets[i]) /\ \A j \in 1..(i - 1) : Ok(offsets[j])]
    ELSE
    LET tiles == [i \in DOMAIN files |->
                     Elems(Product(
                         _calc_tile_indices(
                             offsets[i].value[1], files[i].site.image_size[1],
                             exp.vertical_site_displacement),
                         _calc_tile_indices(
                             offsets[i].value[2], files[i].site.image_size[2],
                             exp.horizontal_site_displacement)))]
    IN  Return(IF files = <<>> THEN c ELSE offsets[1].cache,
               [rc \in UNION {tiles[i] : i \in DOMAIN files} |->
                   FilesAt(rc, tiles, files, 1)])

maxzoom_tile_coordinate_to_image_file_map_body(c, exp, files) ==
    mapping_at_offsets(
        c, [i \in DOMAIN files |-> calc_site_offset(c, exp, files[i].site)], exp, files)

maxzoom_tile_coordinate_to_image_file_map(c, exp, files) ==
    Cached(c, "maxzoom_tile_coordinate_to_image_file_map",
           maxzoom_tile_coordinate_to_image_file_map_body(c, exp, files))

\* calc_coordinates_of_next_higher_level clipping at max_row and max_column
\* inclusively
coordinates_in_dimensions_inclusive(d, exp, level, row, column) ==
    IF ~Ok(d) THEN d
    ELSE IF level + 1 >= Len(d.value) THEN Raise(d.cache, "IndexError")
    ELSE
    LET next == d.value[level + 2]
        rows == Range(row * exp.zoom_factor, row * exp.zoom_factor + exp.zoom_factor)
        cols == Range(column * exp.zoom_factor, column * exp.zoom_factor + exp.zoom_factor)
    IN  Return(d.cache,
               SelectSeq(Product(rows, cols),
                         LAMBDA rc : rc[1] <= next[1] /\ rc[2] <= next[2]))

\* calc_coordinates_of_next_higher_level without the test against max_row
\* and max_column
coordinates_in_dimensions_unclipped(d, exp, level, row, column) ==
    IF ~Ok(d) THEN d
    ELSE IF level + 1 >= Len(d.value) THEN Raise(d.cache, "IndexError")
    ELSE
    LET rows == Range(row * exp.zoom_factor, row * exp.zoom_factor + exp.zoom_factor)
        cols == Range(column * exp.zoom_factor, column * exp.zoom_factor + exp.zoom_factor)
    IN  Return(d.cache, Product(rows, cols))

\* calc_coordinates_of_next_higher_level with ranges that end one short
coordinates_in_dimensions_short(d, exp, level, row, column) ==
    IF ~Ok(d) THEN d
    ELSE IF level + 1 >= Len(d.value) THEN Raise(d.cache, "IndexError")
    ELSE
    LET next == d.value[level + 2]
        rows == Range(row * exp.zoom_factor,
                      row * exp.zoom_factor + exp.zoom_factor - 1)
        cols == Range(column * exp.zoom_factor,
                      column * exp.zoom_factor + exp.zoom_factor - 1)
    IN  Return(d.cache,
               SelectSeq(Product(rows, cols),
                         LAMBDA rc : rc[1] < next[1] /\ rc[2] < next[2]))

\* calc_coordinates_of_next_higher_level after self.dimensions (d) was read
coordinates_in_dimensions(d, exp, level, row, column) ==
    IF ~Ok(d) THEN d
    ELSE IF level + 1 >= Len(d.value) \/ level + 1 < -Len(d.value)
    THEN Raise(d.cache, "IndexError")
    ELSE
    LET next == d.value[IF level + 1 >= 0 THEN level + 2 ELSE Len(d.value) + level + 2]
        max_row == next[1]
        max_column == next[2]
        rows == Range(row * exp.zoom_factor,
                      (row * exp.zoom_factor + exp.zoom_factor - 1) + 1)
        cols == Range(column * exp.zoom_factor,
                      (column * exp.zoom_factor + exp.zoom_factor - 1) + 1)
    IN  Return(d.cache,
               SelectSeq(Product(rows, cols),
                         LAMBDA rc : rc[1] < max_row /\ rc[2] < max_column))

calc_coordinates_of_next_higher_level(c, exp, desc, level, row, column) ==
    coordinates_in_dimensions(dimensions(c, exp, desc), exp, level, row, column)

\* the loops of tile_coordinate_group_map with the columns in the outer and
\* the rows in the inner loop
TileOrderByColumn(dims) ==
    Flatten([l \in DOMAIN dims |->
                LET cr == Product(Range(0, dims[l][2]), Range(0, dims[l][1]))
                IN  [k \in DOMAIN cr |-> <<l - 1, cr[k][2], cr[k][1]>>]])

\* the loops of tile_coordinate_group_map: the tiles in the order in which
\* the counter n passes them
TileOrder(dims) ==
    Flatten([l \in DOMAIN dims |->
                LET rc == Product(Range(0, dims[l][1]), Range(0, dims[l][2]))
                IN  [k \in DOMAIN rc |-> <<l - 1>> \o rc[k]]])

\* the mapping the loops build when the counter n starts at 0 on every level
GroupsInOrderPerLevel(order) ==
    [t \in Elems(order) |->
        LET i == CHOOSE i \in DOMAIN order : order[i] = t
            n == Cardinality({j \in 1..(i - 1) : order[j][1] = t[1]})
        IN  n \div 256]

\* the mapping the loops build: a key holds the group of its last assignment
GroupsInOrder(order) ==
    [t \in Elems(order) |->
        LET n == (CHOOSE i \in DOMAIN order :
                     order[i] = t /\ \A j \in (i + 1)..Len(order) : order[j] # t) - 1
        IN  n \div 256]

\* tile_coordinate_group_map after self.dimensions (d) was read
group_map_of_dimensions(d) ==
    IF ~Ok(d) THEN d ELSE Return(d.cache, GroupsInOrder(TileOrder(d.value)))

tile_coordinate_group_map_body(c, exp, desc) ==
    group_map_of_dimensions(dimensions(c, exp, desc))

tile_coordinate_group_map(c, exp, desc) ==
    Cached(c, "tile_coordinate_group_map", tile_coordinate_group_map_body(c, exp, desc))

(***************************************************************************)
(* Tile file names: strings are sequences of characters.                   *)
(***************************************************************************)

\* build_tile_file_name with the row before the column
build_tile_file_name_row_first(level, row, col) ==
    Str(level) \o <<"-">> \o Str(row) \o <<"-">> \o Str(col) \o <<".", "j", "p", "g">>

\* '{level}-{col}-{row}.jpg'.format(level=level, col=col, row=row)
build_tile_file_name(level, row, col) ==
    Str(level) \o <<"-">> \o Str(col) \o <<"-">> \o Str(row) \o <<".", "j", "p", "g">>

\* the length of the longest run of digits of s that starts at position i
RECURSIVE DigitRun(_, _)
DigitRun(s, i) ==
    IF i <= Len(s) /\ IsDigit(s[i]) THEN 1 + DigitRun(s, i + 1) ELSE 0

CharAt(s, i) == IF i >= 1 /\ i <= Len(s) THEN s[i] ELSE "end"

\* a match of '(?P<level>\d+)-(?P<column>\d+)-(?P<row>\d+).jpg' that starts
\* at position i of s: its groupdict, or nothing. \d+ takes the longest run of
\* digits; the run of the row is shortened until '.', which matches any
\* character but a newline, and 'jpg' follow
MatchAt(s, i) ==
    LET a == DigitRun(s, i)
        b == DigitRun(s, i + a + 1)
        p == i + a + b + 2
        lengths == {m \in 1..DigitRun(s, p) :
                       /\ CharAt(s, p + m) \notin {"end", "\n"}
                       /\ CharAt(s, p + m + 1) = "j"
                       /\ CharAt(s, p + m + 2) = "p"
                       /\ CharAt(s, p + m + 3) = "g"}
    IN  IF a >= 1 /\ CharAt(s, i + a) = "-" /\ b >= 1 /\ CharAt(s, i + a + b + 1) = "-"
           /\ lengths # {}
        THEN LET m == CHOOSE m \in lengths : \A k \in lengths : k <= m
             IN  <<[level |-> SubSeq(s, i, i + a - 1),
                    column |-> SubSeq(s, i + a + 1, i + a + b),
                    row |-> SubSeq(s, p, p + m - 1)]>>
        ELSE <<>>

\* r.search(filename): the leftmost match, or nothing (None)
search(filename) ==
    LET starts == {i \in 1..Len(filename) : MatchAt(filename, i) # <<>>}
    IN  IF starts = {} THEN <<>>
        ELSE MatchAt(filename, CHOOSE i \in starts : \A k \in starts : i <= k)

\* get_coordinate_from_name: groupdict() of None raises AttributeError; the
\* groupdict of a match is never empty, and the RegexError built for an
\* empty one is not raised
get_coordinate_from_name(c, filename) ==
    LET m == search(filename)
    IN  IF m = <<>> THEN Raise(c, "AttributeError")
        ELSE Return(c, <<int(m[1].level), int(m[1].row), int(m[1].column)>>)

\* get_coordinates_of_next_higher_level after the name (n) was parsed
coordinates_of_name(n, exp, desc) ==
    IF ~Ok(n) THEN n
    ELSE calc_coordinates_of_next_higher_level(
             n.cache, exp, desc, n.value[1], n.value[2], n.value[3])

get_coordinates_of_next_higher_level(c, exp, desc, filename) ==
    coordinates_of_name(get_coordinate_from_name(c, filename), exp, desc)

(***************************************************************************)
(* Pixel arrays (tmlib.image): shape and zero-based rows of pixels.        *)
(***************************************************************************)

\* a pixel array of h rows and w columns holding value[i][j] at (i, j)
Array(h, w, value) ==
    [shape |-> <<h, w>>, px |-> [i \in 0..(h - 1) |-> [j \in 0..(w - 1) |-> value[i][j]]]]

Min(a, b) == IF a < b THEN a ELSE b
Max(a, b) == IF a > b THEN a ELSE b

\* image.extract(y_offset, x_offset, height, width).pixels: the part of the
\* window that lies inside the image (y_offset, x_offset >= 0)
extract(image, y_offset, x_offset, height, width) ==
    LET h == Max(0, Min(image.dimensions[1], y_offset + height) - y_offset)
        w == Max(0, Min(image.dimensions[2], x_offset + width) - x_offset)
    IN  Array(h, w,
                      [i \in 0..(h - 1) |-> [j \in 0..(w - 1) |->
                          image.pixels[y_offset + i][x_offset + j]]])

\* tile.pad_with_background(n, side): n rows or columns of zeros on a side
pad_with_background(tile, n, side) ==
    LET h == tile.shape[1]
        w == tile.shape[2]
    IN  CASE side = "top" ->
                Array(h + n, w,
                      [i \in 0..(h + n - 1) |-> [j \in 0..(w - 1) |->
                          IF i < n THEN 0 ELSE tile.px[i - n][j]]])
          [] side = "bottom" ->
                Array(h + n, w,
                      [i \in 0..(h + n - 1) |-> [j \in 0..(w - 1) |->
                          IF i >= h THEN 0 ELSE tile.px[i][j]]])
          [] side = "left" ->
                Array(h, w + n,
                      [i \in 0..(h - 1) |-> [j \in 0..(w + n - 1) |->
                          IF j < n THEN 0 ELSE tile.px[i][j - n]]])
          [] side = "right" ->
                Array(h, w + n,
                      [i \in 0..(h - 1) |-> [j \in 0..(w + n - 1) |->
                          IF j >= w THEN 0 ELSE tile.px[i][j]]])

\* "if n is not None: tile = tile.pad_with_background(n, side)"
PadIf(tile, set, n, side) == IF set THEN pad_with_background(tile, n, side) ELSE tile

extract_tile_from_image(image, y_offset, x_offset) ==
    LET y_end == y_offset + tile_size
        x_end == x_offset + tile_size
        top == y_offset < 0
        bottom == ~top /\ (image.dimensions[1] - y_offset) < tile_size
        left == x_offset < 0
        right == ~left /\ (image.dimensions[2] - x_offset) < tile_size
        n_top == -y_offset
        n_bottom == tile_size - (image.dimensions[1] - y_offset)
        n_left == -x_offset
        n_right == tile_size - (image.dimensions[2] - x_offset)
        y0 == IF top THEN 0 ELSE y_offset
        x0 == IF left THEN 0 ELSE x_offset
    IN  PadIf(PadIf(PadIf(PadIf(
            extract(image, y0, x0, y_end - y0, x_end - x0),
            top, n_top, "top"),
            bottom, n_bottom, "bottom"),
            left, n_left, "left"),
            right, n_right, "right")

(***************************************************************************)
(* The experiments and layers the model runs on.                           *)
(***************************************************************************)

MaxPlates == 4      \* experiments of 1..MaxPlates plates
MaxZoom == 3        \* zoom factors 2..MaxZoom
SitesPerAxis == 2   \* a well holds SitesPerAxis x SitesPerAxis sites

\* the rows and columns of a plate that hold wells
NonemptyRows == <<0, 2>>
NonemptyColumns == <<1, 2>>

\* site size, site displacements and well spacer of an experiment
Geometries ==
    { [site |-> <<256, 256>>, vdisp |-> 0, hdisp |-> 0, spacer |-> 0],
      [site |-> <<128, 150>>, vdisp |-> 10, hdisp |-> 20, spacer |-> 10],
      [site |-> <<300, 260>>, vdisp |-> 0, hdisp |-> 0, spacer |-> 25] }

\* the geometry of the experiments whose pyramid exists
DescribedGeometry == [site |-> <<128, 150>>, vdisp |-> 10, hdisp |-> 20, spacer |-> 10]

\* the base sizes a descriptor of an existing pyramid records
DescriptorSizes == {<<600, 600>>, <<256, 256>>, <<257, 100>>, <<1, 1>>, <<4096, 4000>>}

\* Well.image_size: the sites of the well side by side with their displacement
WellImageSize(g) ==
    <<SitesPerAxis * g.site[1] + (SitesPerAxis - 1) * g.vdisp,
      SitesPerAxis * g.site[2] + (SitesPerAxis - 1) * g.hdisp>>

\* Plate.image_size: the wells of the plate side by side with their spacer
PlateImageSize(g) ==
    <<Len(NonemptyRows) * WellImageSize(g)[1] + (Len(NonemptyRows) - 1) * g.spacer,
      Len(NonemptyColumns) * WellImageSize(g)[2] + (Len(NonemptyColumns) - 1) * g.spacer>>

Plate(id, g) ==
    [id |-> id, image_size |-> PlateImageSize(g),
     nonempty_rows |-> NonemptyRows, nonempty_columns |-> NonemptyColumns]

Experiment(n, g, z) ==
    [plates |-> [p \in 1..n |-> Plate(p, g)],
     zoom_factor |-> z,
     well_spacer_size |-> g.spacer,
     vertical_site_displacement |-> g.vdisp,
     horizontal_site_displacement |-> g.hdisp]

\* the sites of plate p, well by well
SitesOf(p, g) ==
    LET wells == Product(NonemptyRows, NonemptyColumns)
        sites == Product(Range(0, SitesPerAxis), Range(0, SitesPerAxis))
        ws == Product(wells, sites)
    IN  [k \in DOMAIN ws |->
            [coordinate |-> ws[k][2], image_size |-> g.site,
             well |-> [coordinate |-> ws[k][1], image_size |-> WellImageSize(g),
                       plate |-> Plate(p, g)]]]

\* the image files of the layer: one per site of the experiment
ImageFiles(n, g) ==
    LET sites == Flatten([p \in 1..n |-> SitesOf(p, g)])
    IN  [k \in DOMAIN sites |-> [id |-> k, site |-> sites[k]]]

NoCall == [op |-> "none", args |-> <<>>, raises |-> "none", value |-> <<>>]

Called(op, args, r) == [op |-> op, args |-> args, raises |-> r.raises, value |-> r.value]

\* the descriptor of a pyramid of the given base size that was built with
\* zoom factor z
PyramidDescriptor(size, z) ==
    ImageProperties(size[1], size[2],
                    n_tiles_of_dimensions(
                        dimensions_of_sizes(
                            Return(<<>>, Reverse(Levels(size[1], size[2], z))))).value)

\* a layer whose pyramid has not been created
InitCalculated ==
    \E n \in 1..MaxPlates, g \in Geometries, z \in 2..MaxZoom :
        /\ experiment = Experiment(n, g, z)
        /\ image_files = ImageFiles(n, g)
        /\ descriptor = NoDescriptor

\* a layer whose pyramid exists
InitDescribed ==
    \E z \in 2..MaxZoom, s \in DescriptorSizes :
        /\ experiment = Experiment(1, DescribedGeometry, z)
        /\ image_files = ImageFiles(1, DescribedGeometry)
        /\ descriptor = PyramidDescriptor(s, z)

Init ==
    /\ InitCalculated \/ InitDescribed
    /\ cache = <<>>
    /\ call = NoCall
    /\ tile_files = {}
    /\ tile_groups = {}

\* a call on the layer by a caller that holds no outcome: the outcome is
\* recorded and the values the call cached are kept
Do(op, args, r) ==
    /\ call.op = "none"
    /\ call' = Called(op, args, r)
    /\ cache' = r.cache
    /\ UNCHANGED <<experiment, image_files, descriptor, tile_files, tile_groups>>

PlateGrid == Do("plate_grid", <<>>, plate_grid(cache, experiment))

ImageSize == Do("image_size", <<>>, image_size(cache, experiment, descriptor))

Dimensions == Do("dimensions", <<>>, dimensions(cache, experiment, descriptor))

CalcSiteOffset ==
    \E i \in DOMAIN image_files :
        Do("calc_site_offset", <<i>>,
           calc_site_offset(cache, experiment, image_files[i].site))

MapImageToBaseTiles ==
    \E i \in DOMAIN image_files :
        Do("map_image_to_base_tiles", <<i>>,
           map_image_to_base_tiles(cache, experiment, image_files[i]))

MaxzoomTileCoordinateToImageFileMap ==
    Do("maxzoom_tile_coordinate_to_image_file_map", <<>>,
       maxzoom_tile_coordinate_to_image_file_map(cache, experiment, image_files))

\* the tiles of the levels above the base
UpperTiles(dims) == {t \in Elems(TileOrder(dims)) : t[1] + 1 < Len(dims)}

\* the tiles a caller asks for, given the layer's dimensions
TilesToAsk(d) == IF Ok(d) THEN UpperTiles(d.value) ELSE {}

CalcCoordinatesOfNextHigherLevel ==
    \E t \in TilesToAsk(dimensions(cache, experiment, descriptor)) :
        Do("calc_coordinates_of_next_higher_level", t,
           calc_coordinates_of_next_higher_level(
               cache, experiment, descriptor, t[1], t[2], t[3]))

TileCoordinateGroupMap ==
    Do("tile_coordinate_group_map", <<>>,
       tile_coordinate_group_map(cache, experiment, descriptor))

NTiles == Do("n_tiles", <<>>, n_tiles(cache, experiment, descriptor))

\* the caller takes the outcome of its call
TakeOutcome ==
    /\ call.op # "none"
    /\ call' = NoCall
    /\ UNCHANGED <<experiment, image_files, descriptor, cache, tile_files, tile_groups>>

Next ==
    \/ PlateGrid
    \/ ImageSize
    \/ Dimensions
    \/ CalcSiteOffset
    \/ MapImageToBaseTiles
    \/ MaxzoomTileCoordinateToImageFileMap
    \/ CalcCoordinatesOfNextHigherLevel
    \/ TileCoordinateGroupMap
    \/ NTiles
    \/ TakeOutcome

Spec == Init /\ [][Next]_vars

(***************************************************************************)
(* Properties of the mapping between images and tiles (Spec).              *)
(***************************************************************************)

Returned(op) == call.op = op /\ call.raises = "none"

\* the site of the file a call was made for, its offset in the layer and
\* the extent its neighbours do not cover again
CallSite == image_files[call.args[1]].site
CallOffset == calc_site_offset(cache, experiment, CallSite).value
CallExtent ==
    <<CallSite.image_size[1] - experiment.vertical_site_displacement,
      CallSite.image_size[2] - experiment.horizontal_site_displacement>>

\* the tiles of an axis whose 256 pixels [256 t, 256 t + 256) share a pixel
\* with the extent [position, position + extent)
TilesMeeting(position, extent) ==
    {t \in ((position \div 256) - 2)..(((position + extent) \div 256) + 2) :
        256 * t < position + extent /\ position < 256 * t + 256}

\* C3: for a site at offset (Y, X) of size (h, w), map_image_to_base_tiles
\* returns exactly the cross product of the tile rows
\* floor(Y/256) .. ceil((Y + h - vdisp)/256) - 1 and the tile columns
\* floor(X/256) .. ceil((X + w - hdisp)/256) - 1, which are the tiles that
\* meet the displacement-adjusted extent of the image on both axes, each
\* tile once and none missing.
C3_TilesOfImage ==
    Returned("map_image_to_base_tiles") =>
        LET Y == CallOffset[1]
            X == CallOffset[2]
            rows == (Y \div 256)..(-((-(Y + CallExtent[1])) \div 256) - 1)
            cols == (X \div 256)..(-((-(X + CallExtent[2])) \div 256) - 1)
            tiles == {<<call.value[k].row, call.value[k].column>> : k \in DOMAIN call.value}
        IN  /\ tiles = rows \X cols
            /\ Len(call.value) = Cardinality(rows) * Cardinality(cols)
            /\ rows = TilesMeeting(Y, CallExtent[1])
            /\ cols = TilesMeeting(X, CallExtent[2])

\* a site that lies across tile borders on both axes, with a displacement
C3_Witness ==
    /\ Returned("map_image_to_base_tiles")
    /\ Len(call.value) >= 4
    /\ experiment.vertical_site_displacement > 0
    /\ CallOffset[1] % 256 # 0

\* C4: for every tile (row, col) returned by map_image_to_base_tiles for a
\* site at offset (Y, X), y_offset = row*256 - Y and x_offset = col*256 - X;
\* the offset of the first tile on an axis lies in (-256, 0], and each axis
\* has as many offsets as tile indices.
C4_OffsetsOfTiles ==
    Returned("map_image_to_base_tiles") =>
        LET Y == CallOffset[1]
            X == CallOffset[2]
            row_info == _calc_tile_indices_and_offsets(
                            Y, CallSite.image_size[1], experiment.vertical_site_displacement)
            col_info == _calc_tile_indices_and_offsets(
                            X, CallSite.image_size[2], experiment.horizontal_site_displacement)
        IN  /\ \A k \in DOMAIN call.value :
                  /\ call.value[k].y_offset = call.value[k].row * 256 - Y
                  /\ call.value[k].x_offset = call.value[k].column * 256 - X
            /\ call.value # <<>> =>
                  /\ -256 < call.value[1].y_offset /\ call.value[1].y_offset <= 0
                  /\ -256 < call.value[1].x_offset /\ call.value[1].x_offset <= 0
            /\ Len(row_info.offsets) = Len(row_info.indices)
            /\ Len(col_info.offsets) = Len(col_info.indices)
            /\ Len(call.value) = Len(row_info.indices) * Len(col_info.indices)

\* a site whose first tile starts before the image and whose last tile starts
\* inside it
C4_Witness ==
    /\ Returned("map_image_to_base_tiles")
    /\ Len(call.value) >= 2
    /\ call.value[1].y_offset < 0
    /\ call.value[Len(call.value)].y_offset > 0
    /\ call.value[Len(call.value)].x_offset > 0

\* the value of maxzoom_tile_coordinate_to_image_file_map the layer holds
MaxzoomMap == cache["maxzoom_tile_coordinate_to_image_file_map"]

\* C5: the mapping between images and tiles is symmetric: (row, col) is
\* returned by map_image_to_base_tiles(file) if and only if file is in
\* maxzoom_tile_coordinate_to_image_file_map[(row, col)]; the two helpers
\* yield the same tile indices.
C5_MappingIsSymmetric ==
    (/\ Returned("map_image_to_base_tiles")
     /\ "maxzoom_tile_coordinate_to_image_file_map" \in DOMAIN cache) =>
        LET file == image_files[call.args[1]]
            tiles == {<<call.value[k].row, call.value[k].column>> : k \in DOMAIN call.value}
        IN  /\ \A rc \in tiles \cup DOMAIN MaxzoomMap :
                  rc \in tiles <=>
                      (rc \in DOMAIN MaxzoomMap /\ file.id \in Elems(MaxzoomMap[rc]))
            /\ _calc_tile_indices(
                   CallOffset[1], CallSite.image_size[1],
                   experiment.vertical_site_displacement)
               = _calc_tile_indices_and_offsets(
                     CallOffset[1], CallSite.image_size[1],
                     experiment.vertical_site_displacement).indices
            /\ _calc_tile_indices(
                   CallOffset[2], CallSite.image_size[2],
                   experiment.horizontal_site_displacement)
               = _calc_tile_indices_and_offsets(
                     CallOffset[2], CallSite.image_size[2],
                     experiment.horizontal_site_displacement).indices

\* the map was built and an image is mapped to a tile that it shares with
\* another image
C5_Witness ==
    /\ Returned("map_image_to_base_tiles")
    /\ "maxzoom_tile_coordinate_to_image_file_map" \in DOMAIN cache
    /\ \E k \in DOMAIN call.value :
          Len(MaxzoomMap[<<call.value[k].row, call.value[k].column>>]) >= 2
    /\ \E rc \in DOMAIN MaxzoomMap : call.args[1] \notin Elems(MaxzoomMap[rc])

(***************************************************************************)
(* Properties of the offset of a site (Spec).                              *)
(***************************************************************************)

\* the position of a value in a list of distinct values, zero-based
PositionIn(s, v) == CHOOSE k \in 0..(Len(s) - 1) : s[k + 1] = v

\* the cell of the plate grid that holds the plate
PlateCell(id) == CHOOSE rc \in DOMAIN cache["plate_grid"].at : cache["plate_grid"].at[rc] = id

\* C6: calc_site_offset(site) returns
\* y = site.row*site.height + site.row*vdisp + wellRowIdx*well.height
\*     + wellRowIdx*well_spacer + plateGridRow*plate.height and
\* x = site.col*site.width + site.col*hdisp + wellColIdx*well.width
\*     + wellColIdx*well_spacer + plateGridCol*plate.width:
\* the x coordinate uses only widths, also for non-square plates in a grid
\* column > 0.
C6_SiteOffset ==
    Returned("calc_site_offset") =>
        LET site == CallSite
            well == site.well
            plate == well.plate
            wellRowIdx == PositionIn(plate.nonempty_rows, well.coordinate[1])
            wellColIdx == PositionIn(plate.nonempty_columns, well.coordinate[2])
            y == site.coordinate[1] * site.image_size[1]
                 + site.coordinate[1] * experiment.vertical_site_displacement
                 + wellRowIdx * well.image_size[1]
                 + wellRowIdx * experiment.well_spacer_size
                 + PlateCell(plate.id)[1] * plate.image_size[1]
            x == site.coordinate[2] * site.image_size[2]
                 + site.coordinate[2] * experiment.horizontal_site_displacement
                 + wellColIdx * well.image_size[2]
                 + wellColIdx * experiment.well_spacer_size
                 + PlateCell(plate.id)[2] * plate.image_size[2]
        IN  call.value = <<y, x>>

(***************************************************************************)
(* Properties of the pyramid (Spec).                                       *)
(***************************************************************************)

\* the values of image_size and dimensions the layer holds
Sizes == cache["image_size"]
Dims == cache["dimensions"]

DivUp(a, b) == (a + b - 1) \div b

\* C7: for a base size (H0, W0) and a zoom factor z >= 2, image_size returns
\* the levels coarsest first and the base last, each level being
\* (ceil(H/z), ceil(W/z)) of the next finer one, and stops at the first
\* level with H <= 256 and W <= 256; dimensions[l] = (ceil(H_l/256),
\* ceil(W_l/256)), so dimensions[0] = (1, 1). For (600, 600) and z = 2 the
\* tile grids are [(1,1), (2,2), (3,3)] and n_tiles = 14.
C7_PyramidLevels ==
    LET z == experiment.zoom_factor
        is600 == descriptor.exists /\ descriptor.HEIGHT = <<"6", "0", "0">>
                 /\ descriptor.WIDTH = <<"6", "0", "0">>
                 /\ z = 2
    IN  /\ Returned("image_size") =>
              /\ Len(call.value) >= 1
              /\ descriptor.exists =>
                    call.value[Len(call.value)] =
                        <<int(descriptor.HEIGHT), int(descriptor.WIDTH)>>
              /\ \A l \in 1..(Len(call.value) - 1) :
                    /\ call.value[l] = <<DivUp(call.value[l + 1][1], z),
                                         DivUp(call.value[l + 1][2], z)>>
                    /\ call.value[l + 1][1] > 256 \/ call.value[l + 1][2] > 256
              /\ call.value[1][1] <= 256 /\ call.value[1][2] <= 256
        /\ Returned("dimensions") =>
              /\ Len(call.value) = Len(Sizes)
              /\ \A l \in DOMAIN call.value :
                    call.value[l] = <<DivUp(Sizes[l][1], 256), DivUp(Sizes[l][2], 256)>>
              /\ call.value[1] = <<1, 1>>
              /\ is600 => call.value = <<<<1, 1>>, <<2, 2>>, <<3, 3>>>>
        /\ Returned("n_tiles") =>
              /\ is600 => call.value = 14

\* the pyramid of a base of 600 x 600 pixels with zoom factor 2 was measured
C7_Witness ==
    /\ Returned("n_tiles")
    /\ descriptor.exists /\ descriptor.HEIGHT = <<"6", "0", "0">>
    /\ descriptor.WIDTH = <<"6", "0", "0">>
    /\ experiment.zoom_factor = 2
    /\ Len(Sizes) = 3

\* the number of tiles of the levels before level l (one-based in Dims)
RECURSIVE TilesBefore(_)
TilesBefore(l) == IF l <= 1 THEN 0 ELSE TilesBefore(l - 1) + Dims[l - 1][1] * Dims[l - 1][2]

\* the sequence number of a tile: levels coarsest to finest, rows top to
\* bottom, columns left to right
SeqNo(t) == TilesBefore(t[1] + 1) + t[2] * Dims[t[1] + 1][2] + t[3]

\* the tiles of the grids of all levels
AllTiles ==
    UNION {{<<l - 1, r, c>> : r \in 0..(Dims[l][1] - 1), c \in 0..(Dims[l][2] - 1)} :
             l \in DOMAIN Dims}

\* C8: tile_coordinate_group_map assigns every tile (level, row, col) the
\* group floor(seq / 256), seq being the position of the tile in the
\* enumeration over levels coarsest to finest, rows top to bottom, columns
\* left to right.
C8_GroupOfTile ==
    Returned("tile_coordinate_group_map") =>
        /\ DOMAIN call.value = AllTiles
        /\ \A t \in AllTiles : call.value[t] = SeqNo(t) \div 256

\* a pyramid of more than 256 tiles on a grid that is not square
C8_Witness ==
    /\ Returned("tile_coordinate_group_map")
    /\ \E t \in DOMAIN call.value : call.value[t] >= 1
    /\ \E l \in DOMAIN Dims : Dims[l][1] # Dims[l][2]

\* C9: the sequence numbers of the tiles are strictly increasing and unique
\* across the pyramid, the group index does not decrease with the sequence
\* number, and no group holds more than 256 tiles.
C9_GroupsInSequence ==
    Returned("tile_coordinate_group_map") =>
        LET order == TileOrder(Dims) IN
        /\ \A i \in DOMAIN order : \A j \in DOMAIN order : order[i] = order[j] => i = j
        /\ Cardinality(DOMAIN call.value) = Len(order)
        /\ \A i \in 1..(Len(order) - 1) : call.value[order[i]] <= call.value[order[i + 1]]
        /\ \A g \in {call.value[t] : t \in DOMAIN call.value} :
              Cardinality({t \in DOMAIN call.value : call.value[t] = g}) <= 256

\* a pyramid whose tiles fill more than one group
C9_Witness ==
    /\ Returned("tile_coordinate_group_map")
    /\ Cardinality({call.value[t] : t \in DOMAIN call.value}) >= 2
    /\ Cardinality({t \in DOMAIN call.value : call.value[t] = 0}) = 256

\* C10: for a tile (row, col) of a non-base level l,
\* calc_coordinates_of_next_higher_level returns exactly the pairs (r, c)
\* with row*z <= r <= row*z + z - 1, col*z <= c <= col*z + z - 1,
\* r < rows_{l+1} and c < cols_{l+1}: at most z*z children, all inside the
\* grid of the finer level.
C10_ChildrenOfTile ==
    call.op = "calc_coordinates_of_next_higher_level" =>
        LET z == experiment.zoom_factor
            level == call.args[1]
            row == call.args[2]
            col == call.args[3]
            finer == Dims[level + 2]
            children == {rc \in (0..(finer[1] + z)) \X (0..(finer[2] + z)) :
                            /\ row * z <= rc[1] /\ rc[1] <= row * z + z - 1
                            /\ col * z <= rc[2] /\ rc[2] <= col * z + z - 1
                            /\ rc[1] < finer[1] /\ rc[2] < finer[2]}
        IN  /\ call.raises = "none"
            /\ Elems(call.value) = children
            /\ Len(call.value) = Cardinality(children)
            /\ Len(call.value) <= z * z
            /\ \A k \in DOMAIN call.value :
                  /\ 0 <= call.value[k][1] /\ call.value[k][1] < finer[1]
                  /\ 0 <= call.value[k][2] /\ call.value[k][2] < finer[2]

\* a tile at the border of its level, with fewer than z*z children
C10_Witness ==
    /\ Returned("calc_coordinates_of_next_higher_level")
    /\ Len(call.value) >= 1
    /\ Len(call.value) < experiment.zoom_factor * experiment.zoom_factor
    /\ call.args[2] > 0

(***************************************************************************)
(* Plate layouts (SpecPlates): experiments of up to MaxGridPlates plates,  *)
(* also with one plate of another size, with and without a descriptor.     *)
(***************************************************************************)

MaxGridPlates == 9   \* experiments of 1..MaxGridPlates plates

\* the size of a plate that differs from the other plates
OddPlateSize == <<542, 700>>

\* the plates of an experiment whose plate odd (0: none) has another size
PlatesWithOdd(n, g, odd) ==
    [p \in 1..n |-> IF p = odd THEN [Plate(p, g) EXCEPT !.image_size = OddPlateSize]
                    ELSE Plate(p, g)]

\* the site (0, 0) of the first well of a plate
FirstSite(plate, g) ==
    [coordinate |-> <<0, 0>>, image_size |-> g.site,
     well |-> [coordinate |-> <<NonemptyRows[1], NonemptyColumns[1]>>,
               image_size |-> WellImageSize(g), plate |-> plate]]

\* the descriptor of a pyramid of 600 x 600 pixels
SmallDescriptor == PyramidDescriptor(<<600, 600>>, 2)

InitPlates ==
    \E n \in 1..MaxGridPlates, described \in BOOLEAN :
        \E odd \in {0} \cup (IF n > 1 THEN {n} ELSE {}) :
            /\ experiment = [Experiment(n, DescribedGeometry, 2) EXCEPT
                                !.plates = PlatesWithOdd(n, DescribedGeometry, odd)]
            /\ image_files =
                   <<[id |-> 1, site |-> FirstSite(experiment.plates[1], DescribedGeometry)],
                     [id |-> 2, site |-> FirstSite(experiment.plates[n], DescribedGeometry)]>>
            /\ descriptor = IF described THEN SmallDescriptor ELSE NoDescriptor
            /\ cache = <<>>
            /\ call = NoCall
            /\ tile_files = {}
            /\ tile_groups = {}

NextPlates ==
    \/ PlateGrid
    \/ ImageSize
    \/ CalcSiteOffset
    \/ TakeOutcome

SpecPlates == InitPlates /\ [][NextPlates]_vars

(***************************************************************************)
(* Properties of plate layouts (SpecPlates).                               *)
(***************************************************************************)

NPlates == Len(experiment.plates)

Abs(a) == IF a < 0 THEN -a ELSE a

\* C11: for all n_plates >= 1, the computed plate grid (rows, cols)
\* satisfies rows * cols >= n_plates and rows and cols differ by at most 1.
C11_PlateGridIsNearSquare ==
    call.op = "plate_grid" =>
        /\ LET d == plate_grid_dimensions(NPlates)
           IN  /\ d[1] * d[2] >= NPlates
               /\ Abs(d[1] - d[2]) <= 1
               /\ Returned("plate_grid") => call.value.shape = d
        /\ Returned("plate_grid") =>
              /\ call.value.shape[1] * call.value.shape[2] >= NPlates
              /\ Abs(call.value.shape[1] - call.value.shape[2]) <= 1
              /\ Cardinality(DOMAIN call.value.at) =
                     call.value.shape[1] * call.value.shape[2]

\* a grid that is not square was computed
C11_Witness ==
    /\ Returned("plate_grid")
    /\ call.value.shape[1] # call.value.shape[2]

\* C12: for every n >= 1 the plate grid packs the n plates into
\* ceil(sqrt(n)) columns, so a grid that is not square has more columns
\* than rows.
C12_PlateGridColumns ==
    Returned("plate_grid") =>
        /\ call.value.shape[2] = CeilSqrt(NPlates)
        /\ call.value.shape[1] # call.value.shape[2] =>
              call.value.shape[2] > call.value.shape[1]

\* two plates of the experiment report different pixel dimensions
Heterogeneous ==
    \E p, q \in DOMAIN experiment.plates :
        experiment.plates[p].image_size # experiment.plates[q].image_size

\* C16: whenever two plates report different pixel dimensions,
\* calc_site_offset and image_size fail with an error, whether or not a
\* descriptor exists: no offset and no pyramid size is returned.
C16_HeterogeneousPlatesRejected ==
    (Heterogeneous /\ call.op \in {"calc_site_offset", "image_size"}) =>
        call.raises # "none"

(***************************************************************************)
(* Requests by tile name and by tile coordinate (SpecNames): a layer whose *)
(* pyramid of 600 x 600 pixels exists, asked about tiles inside and        *)
(* outside its grids and about names of several forms.                     *)
(***************************************************************************)

\* levels, rows and columns of the tiles that are named
TileIndices == {0, 1, 3, 12, 105}

\* levels, rows and columns of the tiles that are asked for by coordinate
RequestIndices == {-1, 0, 1, 2, 3}

\* the names build_tile_file_name gives
BuiltNames == {build_tile_file_name(l, r, c) : l, r, c \in TileIndices}

\* names of other forms: "", "tile.jpg", "1-2.jpg", "1-2-3.png",
\* "x1-2-3.jpgx", "1-2-3xjpg", "1-2-34jpg", "0-0-0.jpg.bak"
OtherNames ==
    { <<>>,
      <<"t", "i", "l", "e", ".", "j", "p", "g">>,
      <<"1", "-", "2", ".", "j", "p", "g">>,
      <<"1", "-", "2", "-", "3", ".", "p", "n", "g">>,
      <<"x", "1", "-", "2", "-", "3", ".", "j", "p", "g", "x">>,
      <<"1", "-", "2", "-", "3", "x", "j", "p", "g">>,
      <<"1", "-", "2", "-", "3", "4", "j", "p", "g">>,
      <<"0", "-", "0", "-", "0", ".", "j", "p", "g", ".", "b", "a", "k">> }

FileNames == BuiltNames \cup OtherNames

InitNames ==
    \E z \in 2..MaxZoom :
        /\ experiment = Experiment(1, DescribedGeometry, z)
        /\ image_files = <<>>
        /\ descriptor = PyramidDescriptor(<<600, 600>>, z)
        /\ cache = <<>>
        /\ call = NoCall
        /\ tile_files = {}
        /\ tile_groups = {}

BuildTileFileName ==
    \E level \in TileIndices, row \in TileIndices, col \in TileIndices :
        Do("build_tile_file_name", <<level, row, col>>,
           Return(cache, build_tile_file_name(level, row, col)))

GetCoordinateFromName ==
    \E filename \in FileNames :
        Do("get_coordinate_from_name", <<filename>>,
           get_coordinate_from_name(cache, filename))

GetCoordinatesOfNextHigherLevel ==
    \E filename \in FileNames :
        Do("get_coordinates_of_next_higher_level", <<filename>>,
           get_coordinates_of_next_higher_level(cache, experiment, descriptor, filename))

RequestCoordinatesOfNextHigherLevel ==
    \E level \in RequestIndices, row \in RequestIndices, column \in RequestIndices :
        Do("calc_coordinates_of_next_higher_level", <<level, row, column>>,
           calc_coordinates_of_next_higher_level(
               cache, experiment, descriptor, level, row, column))

NextNames ==
    \/ BuildTileFileName
    \/ GetCoordinateFromName
    \/ GetCoordinatesOfNextHigherLevel
    \/ RequestCoordinatesOfNextHigherLevel
    \/ TakeOutcome

SpecNames == InitNames /\ [][NextNames]_vars

(***************************************************************************)
(* Properties of requests by name and by coordinate (SpecNames).           *)
(***************************************************************************)

\* the tile grids of the layer
LayerDims == dimensions(cache, experiment, descriptor).value

\* the tile lies beyond the grid of its level, or its level has no finer one
OutOfBounds(level, row, col) ==
    IF level < 0 \/ level + 1 >= Len(LayerDims) THEN TRUE
    ELSE \/ row < 0 \/ row >= LayerDims[level + 1][1]
         \/ col < 0 \/ col >= LayerDims[level + 1][2]

\* C13: a request for a tile whose row or column lies beyond its level's
\* grid, or whose level has no finer level, is rejected with an error by
\* calc_coordinates_of_next_higher_level and
\* get_coordinates_of_next_higher_level; it is never answered with a list
\* of coordinates.
C13_OutOfBoundsRejected ==
    /\ call.op = "calc_coordinates_of_next_higher_level" =>
          (OutOfBounds(call.args[1], call.args[2], call.args[3]) =>
              call.raises # "none")
    /\ call.op = "get_coordinates_of_next_higher_level" =>
          \A level, row, col \in TileIndices :
              (call.args[1] = build_tile_file_name(level, row, col)
               /\ OutOfBounds(level, row, col)) => call.raises # "none"

AllDigits(s) == s # <<>> /\ \A k \in DOMAIN s : IsDigit(s[k])

\* the name has the form <level>-<col>-<row>.jpg
WellFormed(s) ==
    \E i, j \in DOMAIN s :
        /\ i < j /\ j + 5 <= Len(s)
        /\ s[i] = "-" /\ s[j] = "-"
        /\ AllDigits(SubSeq(s, 1, i - 1))
        /\ AllDigits(SubSeq(s, i + 1, j - 1))
        /\ AllDigits(SubSeq(s, j + 1, Len(s) - 4))
        /\ SubSeq(s, Len(s) - 3, Len(s)) = <<".", "j", "p", "g">>

\* C14: get_coordinate_from_name fails with RegexError for every file name
\* that does not have the form <level>-<col>-<row>.jpg, also for names that
\* contain such a pattern with text around it: it fails with no other error
\* and returns no coordinates for such a name.
C14_MalformedNameRaisesRegexError ==
    (call.op = "get_coordinate_from_name" /\ ~WellFormed(call.args[1])) =>
        call.raises = "RegexError"

\* C15: for all non-negative level, row, col,
\* get_coordinate_from_name(build_tile_file_name(level, row, col)) =
\* (level, row, col), and the file name carries the column before the row.
C15_TileNameRoundTrip ==
    /\ call.op = "build_tile_file_name" =>
          call.value = Str(call.args[1]) \o <<"-">> \o Str(call.args[3]) \o <<"-">>
                       \o Str(call.args[2]) \o <<".", "j", "p", "g">>
    /\ call.op = "get_coordinate_from_name" =>
          \A level, row, col \in TileIndices :
              call.args[1] = build_tile_file_name(level, row, col) =>
                  /\ call.raises = "none"
                  /\ call.value = <<level, row, col>>

\* the name of a tile whose indices differ and have several digits was read
C15_Witness ==
    /\ Returned("get_coordinate_from_name")
    /\ call.args[1] = <<"1", "-", "1", "0", "5", "-", "1", "2", ".", "j", "p", "g">>
    /\ call.value = <<1, 12, 105>>

(***************************************************************************)
(* The loop of image_size, one iteration at a time (SpecZoom): layers of   *)
(* experiments with zoom factors 0..MaxZoom.                               *)
(***************************************************************************)

MaxIterations == 6   \* iterations of the while loop that are followed

\* a call of image_size inside its body: the levels appended so far and
\* the variables height and width
InImageSize(levels, height, width) ==
    [op |-> "image_size", args |-> <<>>, raises |-> "none", value |-> levels,
     pc |-> "while", height |-> height, width |-> width]

\* the call has not returned yet
Running == "pc" \in DOMAIN call

InitZoom ==
    \E z \in 0..MaxZoom :
        /\ experiment = Experiment(1, DescribedGeometry, z)
        /\ image_files = <<>>
        /\ \/ descriptor = NoDescriptor
           \/ \E size \in DescriptorSizes :
                 descriptor = PyramidDescriptor(size, 2)
        /\ cache = <<>>
        /\ call = NoCall
        /\ tile_files = {}
        /\ tile_groups = {}

\* image_size up to "levels.append((height, width))" before the loop, given
\* the base size; a value the cached_property holds is returned at once
ImageSizeEnter(base) ==
    /\ call.op = "none"
    /\ IF "image_size" \in DOMAIN cache
       THEN call' = Called("image_size", <<>>, Return(cache, cache["image_size"]))
            /\ cache' = cache
       ELSE /\ call' = IF Ok(base)
                       THEN InImageSize(<<base.value>>, base.value[1], base.value[2])
                       ELSE Called("image_size", <<>>, base)
            /\ cache' = base.cache
    /\ UNCHANGED <<experiment, image_files, descriptor, tile_files, tile_groups>>

ImageSizeBase ==
    ImageSizeEnter(IF ~descriptor.exists
                   THEN image_size_calculated(cache, experiment)
                   ELSE Return(cache, <<int(descriptor.HEIGHT), int(descriptor.WIDTH)>>))

\* one iteration of "while height > self.tile_size or width > self.tile_size"
ImageSizeWhile ==
    /\ call.op = "image_size" /\ Running
    /\ call.height > tile_size \/ call.width > tile_size
    /\ Len(call.value) <= MaxIterations
    /\ call' = IF experiment.zoom_factor = 0
               THEN Called("image_size", <<>>, Raise(cache, "ZeroDivisionError"))
               ELSE InImageSize(
                        call.value \o <<<<Ceil(call.height, experiment.zoom_factor),
                                          Ceil(call.width, experiment.zoom_factor)>>>>,
                        Ceil(call.height, experiment.zoom_factor),
                        Ceil(call.width, experiment.zoom_factor))
    /\ UNCHANGED <<experiment, image_files, descriptor, cache, tile_files, tile_groups>>

\* the loop ends and the reversed levels are returned and cached
ImageSizeReturn ==
    /\ call.op = "image_size" /\ Running
    /\ ~(call.height > tile_size \/ call.width > tile_size)
    /\ call' = Called("image_size", <<>>, Return(cache, Reverse(call.value)))
    /\ cache' = cache @@ ("image_size" :> Reverse(call.value))
    /\ UNCHANGED <<experiment, image_files, descriptor, tile_files, tile_groups>>

TakeReturnedOutcome == ~Running /\ TakeOutcome

NextZoom ==
    \/ ImageSizeBase
    \/ ImageSizeWhile
    \/ ImageSizeReturn
    \/ TakeReturnedOutcome

SpecZoom == InitZoom /\ [][NextZoom]_vars

(***************************************************************************)
(* Properties of the zoom factor (SpecZoom).                               *)
(***************************************************************************)

\* C17: a zoom factor < 2 is rejected with a configuration error:
\* image_size does not go round its loop without making the image smaller
\* (zoom factor 1), does not divide by zero (zoom factor 0) and returns no
\* levels.
C17_ZoomFactorBelowTwoRejected ==
    (experiment.zoom_factor < 2 /\ call.op = "image_size") =>
        /\ call.raises # "ZeroDivisionError"
        /\ Running =>
              \A k \in 1..(Len(call.value) - 1) : call.value[k + 1] # call.value[k]
        /\ ~Running => call.raises = "ValueError"

(***************************************************************************)
(* Writing and reading the descriptor (SpecDescriptor): layers without a   *)
(* descriptor that write ImageProperties.xml, and layer objects created    *)
(* afterwards for the same layer.                                          *)
(***************************************************************************)

InitDescriptor ==
    /\ InitCalculated
    /\ cache = <<>>
    /\ call = NoCall
    /\ tile_files = {}
    /\ tile_groups = {}

\* create_image_properties_file returns None; XmlWriter writes the file
WriteImageProperties(r) ==
    /\ call.op = "none"
    /\ call' = Called("create_image_properties_file", <<>>, [r EXCEPT !.value = <<>>])
    /\ cache' = r.cache
    /\ descriptor' = IF Ok(r) THEN r.value ELSE descriptor
    /\ UNCHANGED <<experiment, image_files, tile_files, tile_groups>>

CreateImagePropertiesFile ==
    WriteImageProperties(create_image_properties_file(cache, experiment, descriptor))

\* another ChannelLayer object for the same layer: cached_property values
\* belong to the object
FreshLayer ==
    /\ call.op = "none"
    /\ cache # <<>>
    /\ cache' = <<>>
    /\ UNCHANGED <<experiment, image_files, descriptor, call, tile_files, tile_groups>>

NextDescriptor ==
    \/ ImageSize
    \/ Dimensions
    \/ NTiles
    \/ CreateImagePropertiesFile
    \/ FreshLayer
    \/ TakeOutcome

SpecDescriptor == InitDescriptor /\ [][NextDescriptor]_vars

(***************************************************************************)
(* Properties of the descriptor (SpecDescriptor).                          *)
(***************************************************************************)

\* the values a layer without descriptor computes from the geometry
FromGeometry(op) ==
    CASE op = "image_size" -> image_size(<<>>, experiment, NoDescriptor).value
      [] op = "dimensions" -> dimensions(<<>>, experiment, NoDescriptor).value
      [] op = "n_tiles" -> n_tiles(<<>>, experiment, NoDescriptor).value

\* when ImageProperties.xml exists, image_size takes the base from it
BaseIsFromDescriptor ==
    (call.op = "image_size" /\ descriptor.exists) =>
        /\ call.raises = "none"
        /\ call.value[Len(call.value)] = <<int(descriptor.HEIGHT), int(descriptor.WIDTH)>>

\* a descriptor that was written and is read back yields what was computed
\* from the geometry
DescriptorReadsAsComputed ==
    descriptor.exists =>
        /\ <<int(descriptor.HEIGHT), int(descriptor.WIDTH)>> =
               FromGeometry("image_size")[Len(FromGeometry("image_size"))]
        /\ int(descriptor.NUMTILES) = FromGeometry("n_tiles")
        /\ \A op \in {"image_size", "dimensions", "n_tiles"} :
              Returned(op) => call.value = FromGeometry(op)

\* C18: when ImageProperties.xml exists, image_size takes the base
\* (height, width) from it; when it is missing, image_size computes the
\* base size from the geometry without failing; a descriptor written by
\* create_image_properties_file and read back by a fresh layer yields the
\* image_size, dimensions and n_tiles that were computed from the geometry
\* (WIDTH and HEIGHT not exchanged, NUMTILES = n_tiles).
C18_DescriptorOrGeometry ==
    /\ BaseIsFromDescriptor
    /\ (call.op = "image_size" /\ ~descriptor.exists) => call.raises = "none"
    /\ DescriptorReadsAsComputed

(***************************************************************************)
(* Changes of the geometry metadata (SpecMetadata): layers without a       *)
(* descriptor whose experiment gets another zoom factor or well spacer     *)
(* between the reads of the layer's geometry.                              *)
(***************************************************************************)

\* the well spacer sizes an experiment is given
SpacerSizes == {10, 25}

InitMetadata ==
    \E n \in 1..MaxPlates, z \in 2..MaxZoom :
        /\ experiment = Experiment(n, DescribedGeometry, z)
        /\ image_files = <<>>
        /\ descriptor = NoDescriptor
        /\ cache = <<>>
        /\ call = NoCall
        /\ tile_files = {}
        /\ tile_groups = {}

ZoomFactor == Do("zoom_factor", <<>>, zoom_factor(cache, experiment))

\* the experiment's zoom factor or well spacer size is set anew; the layer
\* object is not told
ChangeMetadata ==
    /\ call.op = "none"
    /\ \E z \in 2..MaxZoom, spacer \in SpacerSizes :
          /\ experiment' = [experiment EXCEPT !.zoom_factor = z,
                                              !.well_spacer_size = spacer]
          /\ experiment' # experiment
    /\ UNCHANGED <<image_files, descriptor, cache, call, tile_files, tile_groups>>

NextMetadata ==
    \/ PlateGrid
    \/ ImageSize
    \/ Dimensions
    \/ TileCoordinateGroupMap
    \/ ZoomFactor
    \/ ChangeMetadata
    \/ TakeOutcome

SpecMetadata == InitMetadata /\ [][NextMetadata]_vars

(***************************************************************************)
(* Properties of metadata changes (SpecMetadata).                          *)
(***************************************************************************)

\* the value a read computes from the experiment as it is now
Recomputed(op) ==
    CASE op = "plate_grid" -> plate_grid(<<>>, experiment).value
      [] op = "image_size" -> image_size(<<>>, experiment, descriptor).value
      [] op = "dimensions" -> dimensions(<<>>, experiment, descriptor).value
      [] op = "tile_coordinate_group_map" ->
             tile_coordinate_group_map(<<>>, experiment, descriptor).value
      [] op = "zoom_factor" -> experiment.zoom_factor

\* C19: if the geometry metadata changes while no descriptor exists, every
\* later read of plate_grid, image_size, dimensions,
\* tile_coordinate_group_map and zoom_factor is recomputed from the changed
\* metadata: the layer never returns a value cached before the change.
C19_GeometryRecomputedAfterChange ==
    ~descriptor.exists =>
        \A op \in {"plate_grid", "image_size", "dimensions",
                   "tile_coordinate_group_map", "zoom_factor"} :
            Returned(op) => call.value = Recomputed(op)

(***************************************************************************)
(* Building the pyramid (SpecBuild): the tiles of the base level are       *)
(* written in any order, then the tiles of each level above it, the levels *)
(* from the base to the coarsest and the tiles of a level in any order; a  *)
(* tile above the base is assembled from the tiles that                    *)
(* calc_coordinates_of_next_higher_level names.                            *)
(***************************************************************************)

\* the plate sizes of the experiments whose pyramid is built
BuildSizes == {<<542, 650>>, <<400, 160>>}

InitBuild ==
    \E z \in 2..MaxZoom, size \in BuildSizes :
        /\ experiment = [Experiment(1, DescribedGeometry, z) EXCEPT
                            !.plates = <<[Plate(1, DescribedGeometry) EXCEPT
                                              !.image_size = size]>>]
        /\ image_files = <<>>
        /\ descriptor = NoDescriptor
        /\ cache = <<>>
        /\ call = NoCall
        /\ tile_files = {}
        /\ tile_groups = {}

\* the tiles of a level (zero-based) of the grids dims
TilesOfLevel(dims, level) ==
    {<<level, r, c>> : r \in 0..(dims[level + 1][1] - 1),
                       c \in 0..(dims[level + 1][2] - 1)}

\* the tiles of the base level that are not written yet
BaseTilesToBuild(d) ==
    IF Ok(d) THEN TilesOfLevel(d.value, Len(d.value) - 1) \ tile_files ELSE {}

\* the tiles above the base that are not written yet and whose next finer
\* level is complete
UpperTilesToBuild(d) ==
    IF Ok(d)
    THEN {t \in UpperTiles(d.value) \ tile_files :
             TilesOfLevel(d.value, t[1] + 1) \subseteq tile_files}
    ELSE {}

\* a tile of the base level is written
BuildBaseTile ==
    /\ call.op = "none"
    /\ \E t \in BaseTilesToBuild(dimensions(cache, experiment, descriptor)) :
          tile_files' = tile_files \cup {t}
    /\ cache' = dimensions(cache, experiment, descriptor).cache
    /\ UNCHANGED <<experiment, image_files, descriptor, call, tile_groups>>

\* a tile above the base is assembled from the tiles of the next finer
\* level that calc_coordinates_of_next_higher_level returns, and written
BuildUpperTile ==
    /\ call.op = "none"
    /\ \E t \in UpperTilesToBuild(dimensions(cache, experiment, descriptor)) :
          /\ call' = Called("build_tile", t,
                            calc_coordinates_of_next_higher_level(
                                cache, experiment, descriptor, t[1], t[2], t[3]))
          /\ tile_files' = tile_files \cup {t}
    /\ cache' = dimensions(cache, experiment, descriptor).cache
    /\ UNCHANGED <<experiment, image_files, descriptor, tile_groups>>

NextBuild ==
    \/ BuildBaseTile
    \/ BuildUpperTile
    \/ TakeOutcome

SpecBuild == InitBuild /\ [][NextBuild]_vars

(***************************************************************************)
(* Properties of the build order (SpecBuild).                              *)
(***************************************************************************)

\* the tiles a tile that was just built was assembled from
Dependencies == {<<call.args[1] + 1, rc[1], rc[2]>> : rc \in Elems(call.value)}

\* C20: building the levels from the base to the coarsest satisfies every
\* dependency: a tile of a level l above the base depends, through
\* calc_coordinates_of_next_higher_level, only on tiles of level l + 1 that
\* exist in that level's grid and on no tile of its own level, so whenever
\* it is built all tiles it depends on have been built, in whatever order
\* the tiles of a level are built.
C20_DependenciesAreBuilt ==
    call.op = "build_tile" =>
        /\ call.raises = "none"
        /\ Dependencies # {}
        /\ Dependencies \subseteq TilesOfLevel(Dims, call.args[1] + 1)
        /\ Dependencies \subseteq tile_files
        /\ \A t \in Dependencies : t[1] # call.args[1]

\* a tile with several dependencies was built after one and before another
\* tile of its level
C20_Witness ==
    /\ call.op = "build_tile"
    /\ Cardinality(Dependencies) >= 2
    /\ \E t \in TilesOfLevel(Dims, call.args[1]) \ {call.args} : t \in tile_files
    /\ \E t \in TilesOfLevel(Dims, call.args[1]) : t \notin tile_files

(***************************************************************************)
(* Concurrent workers (SpecWorkers): several workers each make one call on *)
(* a layer without descriptor, a geometry call or the call that writes the *)
(* descriptor.  Workers of one process share the ChannelLayer object,      *)
(* workers of different processes hold an object each; here cache[l] is    *)
(* the memo of layer object l and call[w] the position of worker w.  A     *)
(* call reads the layer when it is entered and stores what it computed     *)
(* when it returns.                                                        *)
(***************************************************************************)

NWorkers == 2

Workers == 1..NWorkers

\* the numbers of plates of the experiments the workers run on
WorkerPlates == {1, 2, 4}

WorkerGeometry == [site |-> <<128, 150>>, vdisp |-> 10, hdisp |-> 20, spacer |-> 10]

Idle ==
    [pc |-> "idle", op |-> "none", args |-> <<>>, raises |-> "none",
     value |-> <<>>, memo |-> <<>>]

\* the layer object worker w calls
LayerOf(w) == IF w \in DOMAIN cache THEN w ELSE 1

\* the image files of the layer that exist while the workers run: those of
\* the first well of the last plate
WorkerImageFiles(n) ==
    SelectSeq(ImageFiles(n, WorkerGeometry),
              LAMBDA f : /\ f.site.well.plate.id = n
                         /\ f.site.well.coordinate = <<NonemptyRows[1], NonemptyColumns[1]>>)

InitWorkers ==
    /\ \E n \in WorkerPlates, z \in 2..MaxZoom :
          /\ experiment = Experiment(n, WorkerGeometry, z)
          /\ image_files = WorkerImageFiles(n)
    /\ descriptor = NoDescriptor
    /\ \E objects \in {1, NWorkers} : cache = [l \in 1..objects |-> <<>>]
    /\ call = [w \in Workers |-> Idle]
    /\ tile_files = {}
    /\ tile_groups = {}

\* worker w enters a call: r is its outcome on the layer as it is now
Enter(w, op, args, r) ==
    /\ call[w].pc = "idle"
    /\ call' = [call EXCEPT ![w] =
                   [pc |-> "entered", op |-> op, args |-> args,
                    raises |-> r.raises, value |-> r.value, memo |-> r.cache]]
    /\ UNCHANGED <<experiment, image_files, descriptor, cache, tile_files, tile_groups>>

\* the image file and the tile the workers ask for
LastFile == Len(image_files)

WorkerPlateGrid ==
    \E w \in Workers :
        Enter(w, "plate_grid", <<>>, plate_grid(cache[LayerOf(w)], experiment))

WorkerImageSize ==
    \E w \in Workers :
        Enter(w, "image_size", <<>>,
              image_size(cache[LayerOf(w)], experiment, descriptor))

WorkerDimensions ==
    \E w \in Workers :
        Enter(w, "dimensions", <<>>,
              dimensions(cache[LayerOf(w)], experiment, descriptor))

WorkerCalcSiteOffset ==
    \E w \in Workers :
        Enter(w, "calc_site_offset", <<LastFile>>,
              calc_site_offset(cache[LayerOf(w)], experiment,
                               image_files[LastFile].site))

WorkerMapImageToBaseTiles ==
    \E w \in Workers :
        Enter(w, "map_image_to_base_tiles", <<LastFile>>,
              map_image_to_base_tiles(cache[LayerOf(w)], experiment,
                                      image_files[LastFile]))

WorkerMaxzoomMap ==
    \E w \in Workers :
        Enter(w, "maxzoom_tile_coordinate_to_image_file_map", <<>>,
              maxzoom_tile_coordinate_to_image_file_map(
                  cache[LayerOf(w)], experiment, image_files))

WorkerCalcCoordinatesOfNextHigherLevel ==
    \E w \in Workers :
        Enter(w, "calc_coordinates_of_next_higher_level", <<0, 0, 0>>,
              calc_coordinates_of_next_higher_level(
                  cache[LayerOf(w)], experiment, descriptor, 0, 0, 0))

WorkerTileCoordinateGroupMap ==
    \E w \in Workers :
        Enter(w, "tile_coordinate_group_map", <<>>,
              tile_coordinate_group_map(cache[LayerOf(w)], experiment, descriptor))

WorkerCreateImagePropertiesFile ==
    \E w \in Workers :
        Enter(w, "create_image_properties_file", <<>>,
              create_image_properties_file(cache[LayerOf(w)], experiment, descriptor))

\* worker w returns from its call: the cached properties it computed are
\* stored in its layer object, the descriptor it built is written
WorkerReturn ==
    \E w \in Workers :
        /\ call[w].pc = "entered"
        /\ cache' = [cache EXCEPT ![LayerOf(w)] = call[w].memo @@ @]
        /\ descriptor' =
               IF call[w].op = "create_image_properties_file" /\ call[w].raises = "none"
               THEN call[w].value ELSE descriptor
        /\ call' = [call EXCEPT ![w] =
                       [@ EXCEPT !.pc = "returned", !.memo = <<>>,
                                 !.value = IF call[w].op = "create_image_properties_file"
                                           THEN <<>> ELSE @]]
        /\ UNCHANGED <<experiment, image_files, tile_files, tile_groups>>

NextWorkers ==
    \/ WorkerPlateGrid
    \/ WorkerImageSize
    \/ WorkerDimensions
    \/ WorkerCalcSiteOffset
    \/ WorkerMapImageToBaseTiles
    \/ WorkerMaxzoomMap
    \/ WorkerCalcCoordinatesOfNextHigherLevel
    \/ WorkerTileCoordinateGroupMap
    \/ WorkerCreateImagePropertiesFile
    \/ WorkerReturn

SpecWorkers == InitWorkers /\ [][NextWorkers]_vars

(***************************************************************************)
(* Properties of concurrent workers (SpecWorkers).                         *)
(***************************************************************************)

GeometryOps ==
    {"plate_grid", "image_size", "dimensions", "calc_site_offset",
     "tile_coordinate_group_map", "map_image_to_base_tiles",
     "maxzoom_tile_coordinate_to_image_file_map",
     "calc_coordinates_of_next_higher_level"}

\* the outcome of a call run alone on a fresh layer object of the layer
\* the workers started with
Alone(op, args) ==
    CASE op = "plate_grid" -> plate_grid(<<>>, experiment)
      [] op = "plate_spacer_size" -> plate_spacer_size(<<>>, experiment)
      [] op = "image_size" -> image_size(<<>>, experiment, NoDescriptor)
      [] op = "dimensions" -> dimensions(<<>>, experiment, NoDescriptor)
      [] op = "calc_site_offset" ->
             calc_site_offset(<<>>, experiment, image_files[args[1]].site)
      [] op = "map_image_to_base_tiles" ->
             map_image_to_base_tiles(<<>>, experiment, image_files[args[1]])
      [] op = "maxzoom_tile_coordinate_to_image_file_map" ->
             maxzoom_tile_coordinate_to_image_file_map(<<>>, experiment, image_files)
      [] op = "calc_coordinates_of_next_higher_level" ->
             calc_coordinates_of_next_higher_level(
                 <<>>, experiment, NoDescriptor, args[1], args[2], args[3])
      [] op = "tile_coordinate_group_map" ->
             tile_coordinate_group_map(<<>>, experiment, NoDescriptor)
      [] op = "create_image_properties_file" ->
             create_image_properties_file(<<>>, experiment, NoDescriptor)

\* every geometry call that has returned gave the outcome it gives alone
ResultsAsAlone ==
    \A w \in Workers :
        (call[w].pc = "returned" /\ call[w].op \in GeometryOps) =>
            /\ call[w].raises = Alone(call[w].op, call[w].args).raises
            /\ call[w].value = Alone(call[w].op, call[w].args).value

NextSites(s, axis) ==
    {image_files[k].site : k \in
        {j \in DOMAIN image_files :
            /\ image_files[j].site.well = s.well
            /\ image_files[j].site.coordinate[axis] = s.coordinate[axis] + 1
            /\ image_files[j].site.coordinate[3 - axis] = s.coordinate[3 - axis]}}

ZeroDisplacement ==
    /\ experiment.vertical_site_displacement = 0
    /\ experiment.horizontal_site_displacement = 0

\* C22: for two sites of the same well that are adjacent along an axis,
\* with zero displacement, the calc_site_offset values differ along that
\* axis by exactly one site's pixel extent on that axis (height for
\* vertical, width for horizontal neighbours) and by 0 on the other axis.
C22_AdjacentSitesOneExtentApart ==
    (Returned("calc_site_offset") /\ ZeroDisplacement) =>
        \A axis \in {1, 2} : \A s \in NextSites(CallSite, axis) :
            LET o == calc_site_offset(cache, experiment, s)
            IN  /\ Ok(o)
                /\ o.value[axis] - call.value[axis] = CallSite.image_size[axis]
                /\ o.value[3 - axis] = call.value[3 - axis]

\* calc_site_offset has returned for a site with a neighbour below and a
\* neighbour to the right, of a non-square site size and a plate in the
\* second grid row
C22_Witness ==
    /\ Returned("calc_site_offset") /\ ZeroDisplacement
    /\ NextSites(CallSite, 1) # {} /\ NextSites(CallSite, 2) # {}
    /\ CallSite.image_size[1] # CallSite.image_size[2]
    /\ CallSite.well.plate.id = 4
    /\ call.value[1] > 0

(***************************************************************************)
(* Levels, tiles and tile groups (SpecGroups): layers with and without a   *)
(* descriptor whose counts are read and whose tile group directories are   *)
(* created, also when the first directory is there already.                *)
(***************************************************************************)

InitGroups ==
    /\ InitCalculated \/ InitDescribed
    /\ cache = <<>>
    /\ call = NoCall
    /\ tile_files = {}
    /\ tile_groups \in {{}, {TileGroupDir(0)}}

NLevels == Do("n_levels", <<>>, n_levels(cache, experiment, descriptor))

BaseLevelIndex ==
    Do("base_level_index", <<>>, base_level_index(cache, experiment, descriptor))

NTileGroups == Do("n_tile_groups", <<>>, n_tile_groups(cache, experiment, descriptor))

\* create_tile_groups returns None; r holds the directories after the call,
\* the arguments of the record the directories before it
MakeTileGroups(r) ==
    /\ call.op = "none"
    /\ call' = Called("create_tile_groups", <<tile_groups>>, [r EXCEPT !.value = <<>>])
    /\ cache' = r.cache
    /\ tile_groups' = IF Ok(r) THEN r.value ELSE tile_groups
    /\ UNCHANGED <<experiment, image_files, descriptor, tile_files>>

CreateTileGroups ==
    MakeTileGroups(create_tile_groups(cache, experiment, descriptor, tile_groups))

NextGroups ==
    \/ Dimensions
    \/ NLevels
    \/ BaseLevelIndex
    \/ NTiles
    \/ NTileGroups
    \/ TileCoordinateGroupMap
    \/ CreateTileGroups
    \/ TakeOutcome

SpecGroups == InitGroups /\ [][NextGroups]_vars

(***************************************************************************)
(* Properties of levels, tiles and tile groups (SpecGroups).               *)
(***************************************************************************)

\* the groups that hold a tile
GroupsInUse(map) == {map[t] : t \in DOMAIN map}

\* C23: n_levels is the length of dimensions, base_level_index is
\* n_levels - 1, n_tiles is the sum over the levels of rows * cols;
\* tile_coordinate_group_map has exactly n_tiles entries, one per
\* (level, row, col) of the grids, the group indices it uses are exactly
\* 0 .. n_tile_groups - 1, and after create_tile_groups the directories are
\* those of the groups that hold a tile.
C23_CountsOfLevelsTilesGroups ==
    /\ Returned("n_levels") => call.value = Len(Dims)
    /\ Returned("base_level_index") =>
          /\ call.value = n_levels(cache, experiment, descriptor).value - 1
          /\ call.value + 1 \in DOMAIN Dims /\ call.value + 2 \notin DOMAIN Dims
    /\ Returned("n_tiles") => call.value = Cardinality(AllTiles)
    /\ Returned("n_tile_groups") =>
          GroupsInUse(tile_coordinate_group_map(cache, experiment, descriptor).value)
              = 0..(call.value - 1)
    /\ Returned("tile_coordinate_group_map") =>
          /\ DOMAIN call.value = AllTiles
          /\ Cardinality(DOMAIN call.value) = n_tiles(cache, experiment, descriptor).value
          /\ GroupsInUse(call.value) =
                 0..(n_tile_groups(cache, experiment, descriptor).value - 1)
    /\ Returned("create_tile_groups") =>
          tile_groups =
              {TileGroupDir(g) : g \in
                  GroupsInUse(tile_coordinate_group_map(cache, experiment, descriptor).value)}

\* the directories of a pyramid of several levels and more than one tile
\* group have been created
C23_Witness ==
    /\ Returned("create_tile_groups")
    /\ Cardinality(tile_groups) >= 2
    /\ Len(Dims) >= 3
    /\ Cardinality(AllTiles) % 256 # 0

\* the mapping map_image_to_base_tiles returned last: the last row and the
\* last column of the image's tiles
LastMapping == call.value[Len(call.value)]

\* C24: when an image overlaps more than one tile along an axis, the offset
\* _calc_tile_indices_and_offsets reports for the last tile on that axis is
\* end_offset = end_index * 256 - (position + length - displacement).
C24_LastTileOffsetIsEndOffset ==
    (Returned("map_image_to_base_tiles") /\ call.value # <<>>) =>
        /\ LastMapping.row > call.value[1].row =>
              LastMapping.y_offset =
                  (LastMapping.row + 1) * 256 - (CallOffset[1] + CallExtent[1])
        /\ LastMapping.column > call.value[1].column =>
              LastMapping.x_offset =
                  (LastMapping.column + 1) * 256 - (CallOffset[2] + CallExtent[2])

\* a window of tile_size pixels at the offset overruns an image of the
\* given length on both sides, or starts at or beyond the image's end
OverrunsBothSides(offset, length) == offset < 0 /\ offset + tile_size > length
StartsBeyond(offset, length) == offset >= length

\* C25: with displacements smaller than tile_size in magnitude, every
\* window (y_offset, x_offset) that map_image_to_base_tiles produces for a
\* site image overruns the image on at most one side per axis and starts
\* before the image's end, so that the either/or padding of
\* extract_tile_from_image yields a full tile.
C25_WindowsOverrunOneSide ==
    Returned("map_image_to_base_tiles") =>
        \A k \in DOMAIN call.value :
            /\ ~OverrunsBothSides(call.value[k].y_offset, CallSite.image_size[1])
            /\ ~OverrunsBothSides(call.value[k].x_offset, CallSite.image_size[2])
            /\ ~StartsBeyond(call.value[k].y_offset, CallSite.image_size[1])
            /\ ~StartsBeyond(call.value[k].x_offset, CallSite.image_size[2])

\* C26: without a descriptor the base-level size image_size computes for a
\* plate grid of R rows and C columns of plates of size (Hp, Wp) is the
\* extent of the grid: height = R * Hp + (R - 1) * plate_spacer_size and
\* width = C * Wp + (C - 1) * plate_spacer_size.
C26_BaseSizeIsGridExtent ==
    (Returned("image_size") /\ ~descriptor.exists) =>
        LET R == cache["plate_grid"].shape[1]
            C == cache["plate_grid"].shape[2]
            Hp == experiment.plates[1].image_size[1]
            Wp == experiment.plates[1].image_size[2]
            spacer == experiment.well_spacer_size * 2
        IN  call.value[Len(call.value)] =
                <<R * Hp + (R - 1) * spacer, C * Wp + (C - 1) * spacer>>

(***************************************************************************)
(* Further properties of the plate grid (SpecPlates).                      *)
(***************************************************************************)

\* the cells of a grid in row-major order
CellsOf(grid) == Product(Range(0, grid.shape[1]), Range(0, grid.shape[2]))

\* C27: for every number of plates n >= 1, also when n is not rows * cols
\* of the chosen grid, plate_grid is computed without error and holds the
\* ID of every plate exactly once, in row-major order, the remaining cells
\* empty; calc_site_offset then finds exactly one grid coordinate for
\* every plate.
C27_PlateGridHoldsEveryPlate ==
    /\ call.op = "plate_grid" =>
          /\ call.raises = "none"
          /\ \A k \in DOMAIN CellsOf(call.value) :
                call.value.at[CellsOf(call.value)[k]] =
                    IF k <= NPlates THEN experiment.plates[k].id ELSE 0
    /\ call.op = "calc_site_offset" =>
          /\ call.raises = "none"
          /\ \A p \in DOMAIN experiment.plates :
                Len(Where(cache["plate_grid"], experiment.plates[p].id)) = 1

(***************************************************************************)
(* Plates of several shapes (SpecShapes): layers without descriptor whose  *)
(* plates are wider than high, square, or higher than wide, in grids of    *)
(* one and of several plates; the images of the corner sites of each plate *)
(* are mapped to tiles.                                                    *)
(***************************************************************************)

\* site sizes that make wide, square and tall plates
ShapeGeometries ==
    { [site |-> <<60, 300>>, vdisp |-> 0, hdisp |-> 0, spacer |-> 10],
      [site |-> <<256, 256>>, vdisp |-> 0, hdisp |-> 0, spacer |-> 0],
      [site |-> <<300, 60>>, vdisp |-> 0, hdisp |-> 0, spacer |-> 10],
      [site |-> <<128, 150>>, vdisp |-> 10, hdisp |-> 20, spacer |-> 10] }

\* the last site of the last well of a plate
LastSite(plate, g) ==
    [coordinate |-> <<SitesPerAxis - 1, SitesPerAxis - 1>>, image_size |-> g.site,
     well |-> [coordinate |-> <<NonemptyRows[Len(NonemptyRows)],
                                NonemptyColumns[Len(NonemptyColumns)]>>,
               image_size |-> WellImageSize(g), plate |-> plate]]

\* the image files of the corner sites of the plates
CornerFiles(n, g) ==
    [k \in 1..(2 * n) |->
        [id |-> k,
         site |-> IF k % 2 = 1 THEN FirstSite(Plate((k + 1) \div 2, g), g)
                  ELSE LastSite(Plate(k \div 2, g), g)]]

InitShapes ==
    \E n \in 1..MaxGridPlates, g \in ShapeGeometries :
        /\ experiment = Experiment(n, g, 2)
        /\ image_files = CornerFiles(n, g)
        /\ descriptor = NoDescriptor
        /\ cache = <<>>
        /\ call = NoCall
        /\ tile_files = {}
        /\ tile_groups = {}

NextShapes ==
    \/ Dimensions
    \/ MapImageToBaseTiles
    \/ TileCoordinateGroupMap
    \/ TakeOutcome

SpecShapes == InitShapes /\ [][NextShapes]_vars

(***************************************************************************)
(* Properties of the tiles of images (SpecShapes).                         *)
(***************************************************************************)

\* the grid of the base level, given the layer's dimensions
BaseGrid(d) == d.value[Len(d.value)]

\* the tiles of the mappings lie inside the grid and have a group
TilesInside(mappings, grid, base, groups) ==
    \A k \in DOMAIN mappings :
        /\ 0 <= mappings[k].row /\ mappings[k].row < grid[1]
        /\ 0 <= mappings[k].column /\ mappings[k].column < grid[2]
        /\ <<base, mappings[k].row, mappings[k].column>> \in DOMAIN groups.value

\* C28: for every site of every plate, every tile (row, col) returned by
\* map_image_to_base_tiles lies inside the base-level grid,
\* 0 <= row < dimensions[base][0] and 0 <= col < dimensions[base][1], so
\* that (base_level_index, row, col) has an entry in
\* tile_coordinate_group_map; also for non-square plates and grids of
\* several plates.
C28_TilesOfImagesInsideBaseGrid ==
    Returned("map_image_to_base_tiles") =>
        /\ Ok(dimensions(cache, experiment, descriptor))
        /\ TilesInside(call.value,
                       BaseGrid(dimensions(cache, experiment, descriptor)),
                       base_level_index(cache, experiment, descriptor).value,
                       tile_coordinate_group_map(cache, experiment, descriptor))

(***************************************************************************)
(* Further properties of the pyramid (Spec).                               *)
(***************************************************************************)

\* the tile of the next coarser level above the tile (r, c)
Parent(rc, z) == <<rc[1] \div z, rc[2] \div z>>

\* the grid of a level, given its dimensions (rows, cols)
GridOf(dims) == (0..(dims[1] - 1)) \X (0..(dims[2] - 1))

\* C29: for every pair of adjacent levels l, l + 1 the child sets returned
\* by calc_coordinates_of_next_higher_level for the tiles of level l
\* partition the grid of level l + 1: every tile of level l has at least
\* one child, and every tile of level l + 1 is the child of exactly one
\* tile of level l, its parent (floor(r / z), floor(c / z)), which lies
\* inside the grid of level l.
C29_ChildrenPartitionFinerLevel ==
    Returned("calc_coordinates_of_next_higher_level") =>
        LET z == experiment.zoom_factor
            level == call.args[1]
            tile == <<call.args[2], call.args[3]>>
            coarser == GridOf(Dims[level + 1])
            finer == GridOf(Dims[level + 2])
        IN  /\ Len(call.value) >= 1
            /\ \A i, j \in DOMAIN call.value : call.value[i] = call.value[j] => i = j
            /\ Elems(call.value) = {rc \in finer : Parent(rc, z) = tile}
            /\ \A rc \in finer : Parent(rc, z) \in coarser

\* the children of a tile of a level below the top were returned, at the
\* border of a finer grid whose rows are no multiple of the zoom factor
C29_Witness ==
    /\ Returned("calc_coordinates_of_next_higher_level")
    /\ call.args[1] >= 1
    /\ Dims[call.args[1] + 2][1] % experiment.zoom_factor # 0
    /\ (call.args[2] + 1) * experiment.zoom_factor > Dims[call.args[1] + 2][1]
    /\ experiment.zoom_factor = 3

(***************************************************************************)
(* Further properties of tile groups (SpecGroups).                         *)
(***************************************************************************)

\* C30: create_tile_groups raises OSError when a tile group directory
\* exists already, so that a second call on the same layer, or a call after
\* another worker created the directories, fails.
C30_ExistingTileGroupRaisesOSError ==
    (call.op = "create_tile_groups" /\ call.args[1] # {}) => call.raises = "OSError"

(***************************************************************************)
(* Tile extraction: images of several sizes and windows at several         *)
(* offsets, also windows that overrun the image.                           *)
(***************************************************************************)

\* heights and widths of the source images
ImageLengths == {100, 256, 300}

\* window offsets along an axis
WindowOffsets == {-10, 0, 44, 300}

\* a source image whose pixels differ from each other and from the background
SourceImage(h, w) ==
    [dimensions |-> <<h, w>>,
     pixels |-> [i \in 0..(h - 1) |-> [j \in 0..(w - 1) |-> 1 + i * w + j]]]

InitExtract ==
    /\ experiment = Experiment(1, DescribedGeometry, 2)
    /\ image_files = ImageFiles(1, DescribedGeometry)
    /\ descriptor = NoDescriptor
    /\ cache = <<>>
    /\ call = NoCall
    /\ tile_files = {}
    /\ tile_groups = {}

ExtractTileFromImage ==
    \E h \in ImageLengths, w \in ImageLengths, y \in WindowOffsets, x \in WindowOffsets :
        Do("extract_tile_from_image", <<h, w, y, x>>,
           Return(cache, extract_tile_from_image(SourceImage(h, w), y, x)))

NextExtract == ExtractTileFromImage \/ TakeOutcome

SpecExtract == InitExtract /\ [][NextExtract]_vars

(***************************************************************************)
(* Properties of tile extraction (SpecExtract).                            *)
(***************************************************************************)

Extracted == call.op = "extract_tile_from_image"

\* the pixel of the source image of a call under the tile's pixel (i, j), or
\* the background where the window lies outside the image
WindowPixel(args, i, j) ==
    LET h == args[1]
        w == args[2]
        y == args[3] + i
        x == args[4] + j
    IN  IF 0 <= y /\ y < h /\ 0 <= x /\ x < w
        THEN SourceImage(h, w).pixels[y][x]
        ELSE 0

\* C1: extract_tile_from_image returns, without raising, a tile of exactly
\* tile_size x tile_size pixels for every image size and window offset, also
\* for windows that overrun the image and images smaller than a tile.
C1_TileHasTileSize ==
    Extracted =>
        /\ call.raises = "none"
        /\ call.value.shape = <<tile_size, tile_size>>

\* C2: pixel (i, j) of the tile is the source pixel (y_offset + i,
\* x_offset + j) where that lies inside the image and the background 0
\* elsewhere; for y_offset = -k, x_offset = 0 the first k rows are background
\* and the others the first 256 - k rows of the image.
C2_TilePixelsAreWindow ==
    Extracted =>
        /\ DOMAIN call.value.px = 0..(tile_size - 1)
        /\ \A i \in 0..(tile_size - 1) :
              /\ DOMAIN call.value.px[i] = 0..(tile_size - 1)
              /\ \A j \in 0..(tile_size - 1) :
                    call.value.px[i][j] = WindowPixel(call.args, i, j)

====
